---------------------------- MODULE Spec2Model ----------------------------
(***************************************************************************)
(* Retrieval and research orchestration of the support copilot:            *)
(*   agents/triage.py         TriageAgent (classify, search, rerank)       *)
(*   agents/deep_research.py  DeepResearchAgent (route, decompose,         *)
(*                            fan-out search, merge, synthesize)           *)
(*   agents/gap_detection.py  GapDetectionAgent                            *)
(*   vector_db/search.py      VectorSearchService, reciprocal_rank_fusion  *)
(*                                                                         *)
(* Conventions.  Python floats that the code only compares and copies are  *)
(* integers in a fixed unit (confidence and cosine similarity in           *)
(* hundredths, fused RRF scores in millionths, as round(.., 6) leaves      *)
(* them).  A JSON value is a record tagged by t, with a different field    *)
(* name for each type of content.  A text is a sequence of tokens.  The    *)
(* outcome of a block of code that may raise is a record with field exc:   *)
(* "none" and the value under val, or the name of the exception.           *)
(***************************************************************************)
EXTENDS Integers, Sequences, FiniteSets, TLC

VARIABLES
    question,        \* messages[-1].content of the request being handled
    llm_calls,       \* calls made to llm_client.chat.completions.create
    cls_pc,          \* TriageAgent._classify: "start", "returned", "raised"
    classification,  \* the dict returned by _classify
    route_pc,        \* DeepResearchAgent._route_complexity: "start", "returned", "raised"
    route,           \* the string returned by _route_complexity
    rrf_pc,          \* reciprocal_rank_fusion: "start", "returned"
    semantic_results,\* rows of the semantic query, nearest first
    fts_results,     \* rows of the full-text query, most relevant first
    fused,           \* the list returned by reciprocal_rank_fusion
    rr_pc,           \* TriageAgent._rerank: "start", "returned", "raised"
    candidates,      \* the list handed to _rerank
    reranked,        \* the list returned by _rerank
    gap_pc,          \* GapDetectionAgent.run: "start", "embedded", "matched", "returned", "raised"
    gap_threshold,   \* self.gap_threshold, in hundredths
    best_match,      \* the dict or None returned by find_best_kb_match
    gap_response,    \* the content of the AgentResponse returned by run
    fan_pc,          \* DeepResearchAgent._parallel_search: "start", "gathering", "returned", "raised"
    sub_queries,     \* the sub-queries handed to _parallel_search
    index_variant,   \* which content the document index has
    embed_calls,     \* the lists of texts sent to embedding_service.embed_batch
    tasks,           \* the search tasks handed to asyncio.gather, in order
    merged,          \* the list returned by _parallel_search
    tri_pc,          \* TriageAgent.run: the await it is at, "returned" or "raised"
    query_embedding, \* the embedding of the rewritten search query
    primary_results, \* the hits of the primary pool
    secondary_type,  \* the pool _secondary_pool picked
    ranked_results,  \* the list built by _build_ranked_results
    response,        \* the payload and metadata of the AgentResponse
    search_pc,       \* VectorSearchService.search_all: the query it awaits, "returned", "raised"
    search_args,     \* the arguments of search_all
    search_run,      \* how many times search_all has been started with these arguments
    first_results,   \* what the first run returned
    search_results,  \* what the latest run returned
    dec_pc,          \* DeepResearchAgent._decompose: "start", "awaiting", "returned", "raised"
    decomposed,      \* the list returned by _decompose
    syn_pc,          \* DeepResearchAgent._synthesize: "start", "awaiting", "returned", "raised"
    syn_results,     \* the list handed to _synthesize
    report,          \* the value returned by _synthesize
    dr_pc,           \* DeepResearchAgent.run: the step it is at, "returned" or "raised"
    dr_ready,        \* the event loop's queue of callbacks that are ready to run
    dr_heap,         \* the list objects run has created, by reference
    dr_refs,         \* run's locals that hold a list: the reference each holds
    enable_reranking \* api.core.constants.ENABLE_RERANKING as deployed

req_vars == <<question, llm_calls>>
cls_vars == <<cls_pc, classification>>
route_vars == <<route_pc, route>>
rrf_vars == <<rrf_pc, semantic_results, fts_results, fused>>
rr_vars == <<rr_pc, candidates, reranked>>
gap_vars == <<gap_pc, gap_threshold, best_match, gap_response>>
fan_vars == <<fan_pc, sub_queries, index_variant, embed_calls, tasks, merged>>
tri_vars == <<tri_pc, query_embedding, primary_results, secondary_type, ranked_results,
              response>>
sa_vars == <<search_pc, search_args, search_run, first_results, search_results>>
dec_vars == <<dec_pc, decomposed>>
syn_vars == <<syn_pc, syn_results, report>>
dr_vars == <<dr_pc, dr_ready, dr_heap, dr_refs>>
cfg_vars == <<enable_reranking>>
vars == <<req_vars, cls_vars, route_vars, rrf_vars, rr_vars, gap_vars, fan_vars, tri_vars,
          sa_vars, dec_vars, syn_vars, dr_vars, cfg_vars>>

\* ------------------------------------------------------------------------
\* Values
\* ------------------------------------------------------------------------

NoValue == [t |-> "unset"]
Missing == [t |-> "missing"]      \* a key the JSON object does not have
Null == [t |-> "null"]            \* JSON null / Python None
Str(s) == [t |-> "str", s |-> s]
Num(n) == [t |-> "num", n |-> n]
List(items) == [t |-> "list", items |-> items]
JsonList == List(<<>>)

Ok(v) == [exc |-> "none", val |-> v]
Raise(e) == [exc |-> e]

\* The exception classes the modelled code can meet; all derive from Exception.
ExceptionKinds ==
    {"APIError", "JSONDecodeError", "AttributeError", "TypeError",
     "ValueError", "KeyError", "IndexError", "DBAPIError"}

Questions == {"how do I reset a password", "voucher sync fails"}

ValidPools == {"SCRIPT", "KB", "TICKET_RESOLUTION"}

\* ------------------------------------------------------------------------
\* Texts returned by the generation provider
\* ------------------------------------------------------------------------

Fence == [k |-> "fence"]                 \* ```
Newline == [k |-> "nl"]
Space == [k |-> "sp"]
Word == [k |-> "word"]                   \* text that is not JSON, e.g. json
Json(v) == [k |-> "json", v |-> v]       \* the text of one JSON value

IsWhitespace(tok) == tok.k \in {"nl", "sp"}

RECURSIVE lstrip(_)
lstrip(text) ==
    IF text # <<>> /\ IsWhitespace(Head(text)) THEN lstrip(Tail(text)) ELSE text

RECURSIVE rstrip(_)
rstrip(text) ==
    IF text # <<>> /\ IsWhitespace(text[Len(text)])
    THEN rstrip(SubSeq(text, 1, Len(text) - 1))
    ELSE text

strip(text) == rstrip(lstrip(text))

Positions(text, kind) == {i \in 1..Len(text) : text[i].k = kind}

Min(S) == CHOOSE x \in S : \A y \in S : x <= y
Max(S) == CHOOSE x \in S : \A y \in S : x >= y

\* seq[:n] and seq[n:]
Prefix(seq, n) == SubSeq(seq, 1, IF n < Len(seq) THEN n ELSE Len(seq))
Suffix(seq, n) == SubSeq(seq, (IF n < Len(seq) THEN n ELSE Len(seq)) + 1, Len(seq))

\* text.split("\n", 1)[1] if "\n" in text else text[3:]
AfterFirstLine(text) ==
    IF Positions(text, "nl") # {}
    THEN SubSeq(text, Min(Positions(text, "nl")) + 1, Len(text))
    ELSE Tail(text)

\* text.rsplit("```", 1)[0]
BeforeLastFence(text) ==
    IF Positions(text, "fence") # {}
    THEN SubSeq(text, 1, Max(Positions(text, "fence")) - 1)
    ELSE text

strip_markdown_fences(text) ==
    LET t1 == strip(text)
        t2 == IF t1 # <<>> /\ Head(t1).k = "fence"
              THEN BeforeLastFence(AfterFirstLine(t1))
              ELSE t1
    IN strip(t2)

\* json.loads accepts one JSON value with whitespace around it.
json_loads(text) ==
    LET t == strip(text)
    IN IF Len(t) = 1 /\ t[1].k = "json" THEN Ok(t[1].v) ELSE Raise("JSONDecodeError")

\* How a payload may be wrapped by the provider.
Plain(v) == <<Json(v)>>
Fenced(v) == <<Fence, Word, Newline, Json(v), Newline, Fence>>
FencedInline(v) == <<Fence, Json(v), Fence>>
FencedTagInline(v) == <<Fence, Word, Space, Json(v), Fence>>
Padded(v) == <<Newline, Space, Json(v), Space, Newline>>
Chatty(v) == <<Word, Space, Json(v)>>

\* A reply of chat.completions.create: it raised, or it has a content that
\* is None or a text.
ApiError == [exc |-> "APIError"]
NoContent == [exc |-> "none", content |-> Null]
Content(text) == [exc |-> "none", content |-> [t |-> "text", toks |-> text]]

\* completion.choices[0].message.content or <default>
ContentOr(reply, default) ==
    IF reply.content.t = "null" \/ reply.content.toks = <<>>
    THEN default
    ELSE reply.content.toks

\* ------------------------------------------------------------------------
\* TriageAgent._classify
\* ------------------------------------------------------------------------

EmptyObject ==
    [t |-> "obj", answer_type |-> Missing, confidence |-> Missing,
     reasoning |-> Missing, search_query |-> Missing]

\* What the provider may put under each key of its answer.
AnswerTypeValues ==
    {Str(p) : p \in ValidPools} \cup {Str("kb"), Str("FAQ"), Null, Missing}
ConfidenceValues ==
    {Num(95), Num(0), Num(100), Num(150), Num(-20), Str("high"), Null, Missing}
ReasoningValues == {Str("mentions a backend data issue"), Missing}
SearchQueryValues == {Str("voucher sync remediation script"), Null, Missing}

ClassifyObjects ==
    [t : {"obj"}, answer_type : AnswerTypeValues, confidence : ConfidenceValues,
     reasoning : ReasoningValues, search_query : SearchQueryValues]

ClassifyReplies ==
    {ApiError, NoContent, Content(<<>>), Content(<<Word, Space, Word>>),
     Content(Plain(JsonList)), Content(Plain(Null)), Content(Plain(Num(1)))}
    \cup {Content(Plain(o)) : o \in ClassifyObjects}
    \cup {Content(Fenced(o)) : o \in ClassifyObjects}
    \cup {Content(FencedInline(EmptyObject)), Content(FencedTagInline(EmptyObject)),
          Content(Padded(EmptyObject)), Content(Chatty(EmptyObject))}

\* float(x)
float(v) ==
    CASE v.t = "num" -> Ok(v.n)
      [] v.t = "null" -> Raise("TypeError")
      [] OTHER -> Raise("ValueError")

\* dict.get(key, default) on a value read from the object
Get(v, default) == IF v.t = "missing" THEN default ELSE v

\* Mutant: any string is taken for a pool.
IsValidAnswerType_AnyString(v) == v.t = "str"

IsValidAnswerType(v) == v.t = "str" /\ v.s \in ValidPools

\* The body of the try block.
classify_try(q, reply) ==
    IF reply.exc # "none" THEN Raise(reply.exc)
    ELSE
    LET raw == ContentOr(reply, Plain(EmptyObject))
        loaded == json_loads(strip_markdown_fences(raw))
    IN IF loaded.exc # "none" THEN loaded
       ELSE IF loaded.val.t # "obj" THEN Raise("AttributeError")
       ELSE
       LET parsed == loaded.val
           valid == IsValidAnswerType(Get(parsed.answer_type, Null))
           answer_type == IF valid THEN parsed.answer_type.s ELSE "KB"
           confidence == IF valid THEN parsed.confidence ELSE Num(50)
           conf == float(Get(confidence, Num(50)))
       IN IF conf.exc # "none" THEN conf
          ELSE Ok([answer_type |-> answer_type,
                   confidence |-> conf.val,
                   reasoning |-> Get(parsed.reasoning, Str("")),
                   search_query |-> Get(parsed.search_query, Str(q))])

ClassificationFailedReasoning ==
    Str("Classification failed - falling back to KB search.")

ClassifyFallback(q) ==
    [answer_type |-> "KB", confidence |-> 30,
     reasoning |-> ClassificationFailedReasoning, search_query |-> Str(q)]

\* except Exception
CaughtByExceptException(e) == e \in ExceptionKinds

\* Mutant: the handler is "except json.JSONDecodeError".
_classify_CatchesJsonOnly(q, reply) ==
    LET r == classify_try(q, reply)
    IN IF r.exc = "none" THEN r
       ELSE IF r.exc = "JSONDecodeError" THEN Ok(ClassifyFallback(q))
       ELSE r

_classify(q, reply) ==
    LET r == classify_try(q, reply)
    IN IF r.exc = "none" THEN r
       ELSE IF CaughtByExceptException(r.exc) THEN Ok(ClassifyFallback(q))
       ELSE r

LlmCall(stage, reply) == [stage |-> stage, reply |-> reply]

Classify ==
    /\ cls_pc = "start"
    /\ \E reply \in ClassifyReplies :
          LET r == _classify(question, reply)
          IN /\ llm_calls' = Append(llm_calls, LlmCall("classify", reply))
             /\ cls_pc' = IF r.exc = "none" THEN "returned" ELSE "raised"
             /\ classification' = IF r.exc = "none" THEN r.val ELSE NoValue
    /\ UNCHANGED <<question, route_vars, rrf_vars, rr_vars, gap_vars, fan_vars, tri_vars, sa_vars,
                   dec_vars, syn_vars, dr_vars,
                   cfg_vars>>

\* The reply of the classification call, and what it parses to.
ClassifyReply == llm_calls[Len(llm_calls)].reply
LoadedReply(reply, default) ==
    IF reply.exc # "none" THEN Raise(reply.exc)
    ELSE json_loads(strip_markdown_fences(ContentOr(reply, default)))
ReplyIsObject(reply, default) ==
    LET l == LoadedReply(reply, default) IN l.exc = "none" /\ l.val.t = "obj"
ReplyObject(reply, default) == LoadedReply(reply, default).val

\* The provider answered with an object whose pool is not one of the three.
ProviderPoolInvalidOrMissing(reply) ==
    /\ ReplyIsObject(reply, Plain(EmptyObject))
    /\ LET at == ReplyObject(reply, Plain(EmptyObject)).answer_type
       IN ~(at.t = "str" /\ at.s \in {"SCRIPT", "KB", "TICKET_RESOLUTION"})

\* The provider failed, or its reply is not the JSON object asked for, or the
\* confidence it gives for a valid pool is not a number.
ClassifyReplyFailed(reply) ==
    \/ reply.exc # "none"
    \/ ~ReplyIsObject(reply, Plain(EmptyObject))
    \/ /\ ~ProviderPoolInvalidOrMissing(reply)
       /\ ReplyObject(reply, Plain(EmptyObject)).confidence.t \in {"null", "str"}

\* C2: whatever the provider does, the classification returned by _classify
\* has a pool among SCRIPT, KB, TICKET_RESOLUTION; when the provider's answer
\* carries an invalid pool or none, the pool is KB and the confidence is 0.5.
C2_ClassifyPoolValid ==
    cls_pc # "start" =>
        /\ cls_pc = "returned"
        /\ classification.answer_type \in {"SCRIPT", "KB", "TICKET_RESOLUTION"}
        /\ ProviderPoolInvalidOrMissing(ClassifyReply) =>
               /\ classification.answer_type = "KB"
               /\ classification.confidence = 50

C2_Witness ==
    /\ cls_pc = "returned"
    /\ ProviderPoolInvalidOrMissing(ClassifyReply)
    /\ ReplyObject(ClassifyReply, Plain(EmptyObject)).answer_type = Str("kb")
    /\ ReplyObject(ClassifyReply, Plain(EmptyObject)).confidence = Num(95)
    /\ classification.answer_type = "KB"
    /\ classification.confidence = 50

\* C3: _classify never raises; when the provider fails or its reply cannot be
\* parsed into a classification, the result is the fallback: pool KB,
\* confidence 0.3, the fixed failure reasoning, and the original question as
\* the rewritten query.
C3_ClassifyFallback ==
    cls_pc # "start" =>
        /\ cls_pc = "returned"
        /\ ClassifyReplyFailed(ClassifyReply) =>
               /\ classification.answer_type = "KB"
               /\ classification.confidence = 30
               /\ classification.reasoning = ClassificationFailedReasoning
               /\ classification.search_query = Str(question)

C3_Witness ==
    /\ cls_pc = "returned"
    /\ ClassifyReply.exc = "none"
    /\ LoadedReply(ClassifyReply, Plain(EmptyObject)).exc = "JSONDecodeError"
    /\ classification = ClassifyFallback(question)

\* C14: whatever the provider answers, the confidence of the classification
\* _classify returns lies in [0, 1] (0 to 100 hundredths).
C14_ConfidenceInUnitInterval ==
    cls_pc = "returned" =>
        /\ classification.confidence >= 0
        /\ classification.confidence <= 100

\* ------------------------------------------------------------------------
\* DeepResearchAgent._route_complexity
\* ------------------------------------------------------------------------

Chars(w) == [k |-> "chars", w |-> w]     \* a run of non-blank characters

\* str.upper on the words the router may be answered with
UpperWord(w) ==
    CASE w \in {"SIMPLE", "simple", "Simple", "sImPlE"} -> "SIMPLE"
      [] w \in {"RESEARCH", "research", "Research"} -> "RESEARCH"
      [] w \in {"SIMPLE.", "simple."} -> "SIMPLE."
      [] w \in {"COMPLEX", "complex"} -> "COMPLEX"
      [] OTHER -> w

upper(text) ==
    [i \in 1..Len(text) |->
        IF text[i].k = "chars" THEN Chars(UpperWord(text[i].w)) ELSE text[i]]

RouteWords ==
    {"SIMPLE", "simple", "Simple", "sImPlE", "RESEARCH", "research", "Research",
     "SIMPLE.", "simple.", "COMPLEX", "complex"}

RouteTexts ==
    {<<>>, <<Space>>, <<Newline, Space>>}
    \cup {<<Chars(w)>> : w \in RouteWords}
    \cup {<<Space, Chars(w), Newline>> : w \in RouteWords}
    \cup {<<Chars(w), Newline>> : w \in RouteWords}
    \cup {<<Fence, Chars(w), Fence>> : w \in RouteWords}
    \cup {<<Chars(w), Space, Chars(v)>> : w \in RouteWords, v \in {"SIMPLE", "query", "RESEARCH"}}

RouteReplies == {ApiError, NoContent} \cup {Content(t) : t \in RouteTexts}

\* The body of the try block.
route_complexity_try(reply) ==
    IF reply.exc # "none" THEN Raise(reply.exc)
    ELSE
    LET raw == upper(strip(ContentOr(reply, <<>>)))
    IN IF raw \in {<<Chars("SIMPLE")>>, <<Chars("RESEARCH")>>}
       THEN Ok(raw[1].w)
       ELSE Ok("RESEARCH")

\* Mutant: the fallback of the router is the cheap path.
_route_complexity_DefaultSimple(reply) ==
    LET r == route_complexity_try(reply)
    IN IF r.exc = "none" THEN r
       ELSE IF CaughtByExceptException(r.exc) THEN Ok("SIMPLE")
       ELSE r

_route_complexity(reply) ==
    LET r == route_complexity_try(reply)
    IN IF r.exc = "none" THEN r
       ELSE IF CaughtByExceptException(r.exc) THEN Ok("RESEARCH")
       ELSE r

RouteComplexity ==
    /\ route_pc = "start"
    /\ \E reply \in RouteReplies :
          LET r == _route_complexity(reply)
          IN /\ llm_calls' = Append(llm_calls, LlmCall("route", reply))
             /\ route_pc' = IF r.exc = "none" THEN "returned" ELSE "raised"
             /\ route' = IF r.exc = "none" THEN r.val ELSE "-"
    /\ UNCHANGED <<question, cls_vars, rrf_vars, rr_vars, gap_vars, fan_vars, tri_vars, sa_vars,
                   dec_vars, syn_vars, dr_vars,
                   cfg_vars>>

RouteReply == llm_calls[Len(llm_calls)].reply

\* The reply, with leading and trailing blanks removed and letters put in
\* upper case, reads exactly SIMPLE.
ReplyReadsSimple(reply) ==
    /\ reply.exc = "none"
    /\ reply.content.t = "text"
    /\ LET body == SelectSeq(reply.content.toks, LAMBDA tok : tok.k \notin {"sp", "nl"})
           blanksInside ==
               \E i, j, l \in 1..Len(reply.content.toks) :
                   /\ i < j /\ j < l
                   /\ ~IsWhitespace(reply.content.toks[i])
                   /\ IsWhitespace(reply.content.toks[j])
                   /\ ~IsWhitespace(reply.content.toks[l])
       IN /\ ~blanksInside
          /\ Len(body) = 1
          /\ body[1].k = "chars"
          /\ body[1].w \in {"SIMPLE", "simple", "Simple", "sImPlE"}

\* C4: _route_complexity returns SIMPLE or RESEARCH and never raises; it
\* returns SIMPLE exactly when the reply, trimmed and upper-cased, is SIMPLE,
\* and RESEARCH on a provider error and on every other reply.
C4_RouteDefaultsToResearch ==
    route_pc # "start" =>
        /\ route_pc = "returned"
        /\ route \in {"SIMPLE", "RESEARCH"}
        /\ route = "SIMPLE" <=> ReplyReadsSimple(RouteReply)

C4_Witness ==
    /\ route_pc = "returned"
    /\ RouteReply.exc = "APIError"
    /\ route = "RESEARCH"

C4_WitnessSimple ==
    /\ route_pc = "returned"
    /\ RouteReply = Content(<<Space, Chars("sImPlE"), Newline>>)
    /\ route = "SIMPLE"

\* ------------------------------------------------------------------------
\* The document index and reciprocal_rank_fusion
\* ------------------------------------------------------------------------

RRF_K == 60
SEMANTIC_WEIGHT == 7          \* 0.7, in tenths
FTS_WEIGHT == 3               \* 0.3, in tenths
WeightUnit == 10
Million == 1000000

NumDocs == 4                  \* rows of a table that a query can return
MaxList == 3                  \* longest list handed to the fusion

KbIds == <<"KB-1", "KB-2", "KB-3", "KB-4", "KB-5", "KB-6">>
ScriptIds == <<"SCRIPT-1", "SCRIPT-2", "SCRIPT-3", "SCRIPT-4", "SCRIPT-5", "SCRIPT-6">>
TicketIds == <<"CS-1", "CS-2", "CS-3", "CS-4", "CS-5", "CS-6">>

\* A table of articles that is longer than the overfetch of search_all.
LargeKbIds ==
    <<"KB-1", "KB-2", "KB-3", "KB-4", "KB-5", "KB-6", "KB-7", "KB-8", "KB-9", "KB-10",
      "KB-11", "KB-12", "KB-13", "KB-14", "KB-15", "KB-16", "KB-17", "KB-18", "KB-19",
      "KB-20", "KB-21", "KB-22">>

Range(f) == {f[i] : i \in DOMAIN f}
FirstIds(ids, n) == {ids[i] : i \in 1..(IF n < Len(ids) THEN n ELSE Len(ids))}

\* The columns of a row that the dict built from it carries.  An article has
\* a title and a body and its own source_type column; a ticket's description
\* (its title here) and resolution (its preview) are nullable.
DocColumns(id) ==
    CASE id \in Range(KbIds) \cup Range(LargeKbIds) ->
            [title |-> Str("article"), content_preview |-> Str("body"),
             source_type |-> IF id = "KB-2" THEN Null ELSE Str("original")]
      [] id \in Range(ScriptIds) ->
            [title |-> Str("script"), content_preview |-> Str("sql"),
             source_type |-> Missing]
      [] OTHER ->
            [title |-> IF id = "CS-2" THEN Null ELSE Str("description"),
             content_preview |-> IF id = "CS-3" THEN Null ELSE Str("resolution"),
             source_type |-> Missing]

\* The dict a search method builds from a row; score is the cosine
\* similarity or the ts_rank of the row, in hundredths.
Row(id, score) ==
    [id |-> id,
     title |-> DocColumns(id).title,
     content_preview |-> DocColumns(id).content_preview,
     source_type |-> DocColumns(id).source_type,
     similarity_score |-> score,
     rank |-> Missing]

\* The sequences without repetition of at most n elements of S.
RECURSIVE Arrangements(_, _)
Arrangements(S, n) ==
    IF n = 0 THEN {<<>>}
    ELSE LET shorter == Arrangements(S, n - 1)
         IN shorter \cup
            UNION {{Append(a, x) : x \in S \ Range(a)} :
                       a \in {b \in shorter : Len(b) = n - 1}}

\* A query returns its rows best first: the i-th row of a result scores
\* 95, 90, 85, ... hundredths.
RowsOf(ids) == [i \in 1..Len(ids) |-> Row(ids[i], 100 - 5 * i)]

IdsOf(rows) == [i \in 1..Len(rows) |-> rows[i].id]

\* enumerate(results, start=1): the rank of id in the list, 0 when absent.
\* The ids of one query's rows are distinct (id is the primary key).
RankIn(rows, id) ==
    IF \E i \in 1..Len(rows) : rows[i].id = id
    THEN Min({i \in 1..Len(rows) : rows[i].id = id})
    ELSE 0

\* Mutant: enumerate(results) without start=1.
RrfScore_ZeroBasedRank(rs, rl) ==
    CASE rs > 0 /\ rl > 0 ->
            [num |-> SEMANTIC_WEIGHT * (RRF_K + rl - 1) + FTS_WEIGHT * (RRF_K + rs - 1),
             den |-> WeightUnit * (RRF_K + rs - 1) * (RRF_K + rl - 1)]
      [] rs > 0 -> [num |-> SEMANTIC_WEIGHT, den |-> WeightUnit * (RRF_K + rs - 1)]
      [] OTHER -> [num |-> FTS_WEIGHT, den |-> WeightUnit * (RRF_K + rl - 1)]

\* scores[doc_id]: semantic_weight / (k + rank) + fts_weight / (k + rank) as
\* the fraction num / den; a rank of 0 is a list without the document.
RrfScore(rs, rl) ==
    CASE rs > 0 /\ rl > 0 ->
            [num |-> SEMANTIC_WEIGHT * (RRF_K + rl) + FTS_WEIGHT * (RRF_K + rs),
             den |-> WeightUnit * (RRF_K + rs) * (RRF_K + rl)]
      [] rs > 0 -> [num |-> SEMANTIC_WEIGHT, den |-> WeightUnit * (RRF_K + rs)]
      [] OTHER -> [num |-> FTS_WEIGHT, den |-> WeightUnit * (RRF_K + rl)]

ScoreGreater(a, b) == a.num * b.den > b.num * a.den

\* round(x, 6), in millionths.  The doubles 0.7 and 0.3 lie just below seven
\* and three tenths, so a sum that is exactly half way between two
\* millionths (a rank of 4 gives 0.7 / 64 = 0.0109375) is as a double just
\* below it and rounds down.
round6(x) ==
    LET q == (Million * x.num) \div x.den
        r == (Million * x.num) % x.den
    IN IF 2 * r > x.den THEN q + 1 ELSE q

\* sorted(seq, key, reverse=True) keeps the order of equal keys: an entry
\* goes in front of the first entry whose key it is greater than.  An entry
\* is an element with its key, the fraction key.num / key.den.
RECURSIVE InsertDesc(_, _)
InsertDesc(sorted, e) ==
    IF sorted = <<>> THEN <<e>>
    ELSE IF ScoreGreater(e.key, Head(sorted).key) THEN <<e>> \o sorted
    ELSE <<Head(sorted)>> \o InsertDesc(Tail(sorted), e)

RECURSIVE SortedDesc(_)
SortedDesc(entries) ==
    IF entries = <<>> THEN <<>>
    ELSE InsertDesc(SortedDesc(SubSeq(entries, 1, Len(entries) - 1)),
                    entries[Len(entries)])

reciprocal_rank_fusion(semantic, fts) ==
    LET ftsOnly == SelectSeq(IdsOf(fts), LAMBDA id : RankIn(semantic, id) = 0)
        keys == IdsOf(semantic) \o ftsOnly          \* the keys of scores, as inserted
        score(id) == RrfScore(RankIn(semantic, id), RankIn(fts, id))
        item(id) == IF RankIn(semantic, id) > 0
                    THEN semantic[RankIn(semantic, id)]
                    ELSE fts[RankIn(fts, id)]
        sorted_ids ==
            SortedDesc([i \in 1..Len(keys) |-> [x |-> keys[i], key |-> score(keys[i])]])
    IN [i \in 1..Len(sorted_ids) |->
           [item(sorted_ids[i].x) EXCEPT !.similarity_score = round6(sorted_ids[i].key)]]

Fuse ==
    /\ rrf_pc = "start"
    /\ fused' = reciprocal_rank_fusion(semantic_results, fts_results)
    /\ rrf_pc' = "returned"
    /\ UNCHANGED <<semantic_results, fts_results, req_vars, cls_vars, route_vars,
                   rr_vars, gap_vars, fan_vars, tri_vars, sa_vars,
                   dec_vars, syn_vars, dr_vars,
                   cfg_vars>>

\* The rank a document has in a list, the last place plus one when absent.
PlaceIn(rows, id) == IF RankIn(rows, id) = 0 THEN Len(rows) + 1 ELSE RankIn(rows, id)

FusedIds == {fused[i].id : i \in 1..Len(fused)}
InputIds == Range(IdsOf(semantic_results)) \cup Range(IdsOf(fts_results))

\* The weighted sum of a fused document, as the fraction num / den.
ClaimedNum(id) ==
    LET rs == RankIn(semantic_results, id)
        rl == RankIn(fts_results, id)
    IN (IF rs > 0 THEN 7 * (IF rl > 0 THEN 60 + rl ELSE 1) ELSE 0)
       + (IF rl > 0 THEN 3 * (IF rs > 0 THEN 60 + rs ELSE 1) ELSE 0)
ClaimedDen(id) ==
    LET rs == RankIn(semantic_results, id)
        rl == RankIn(fts_results, id)
    IN 10 * (IF rs > 0 THEN 60 + rs ELSE 1) * (IF rl > 0 THEN 60 + rl ELSE 1)

Abs(n) == IF n < 0 THEN -n ELSE n

FusedOnceEach ==
    /\ FusedIds = InputIds
    /\ Len(fused) = Cardinality(InputIds)

FusedMonotone ==
    \A i, j \in 1..Len(fused) :
        (/\ PlaceIn(semantic_results, fused[i].id) <= PlaceIn(semantic_results, fused[j].id)
         /\ PlaceIn(fts_results, fused[i].id) <= PlaceIn(fts_results, fused[j].id))
        => fused[i].similarity_score >= fused[j].similarity_score

\* C5 as stated: the score of every fused document is exactly
\* semantic_weight / (K + rank_semantic) + lexical_weight / (K + rank_lexical),
\* with a 0 term for a list the document is absent from, so that a document
\* first in both lists scores 1/61; and no score increases as a rank worsens.
C5_ExactScore ==
    rrf_pc = "returned" =>
        /\ FusedOnceEach
        /\ \A i \in 1..Len(fused) :
               fused[i].similarity_score * ClaimedDen(fused[i].id)
                   = Million * ClaimedNum(fused[i].id)
        /\ FusedMonotone

\* C5 as amended: the score of every fused document is that weighted sum
\* rounded to six decimal places (within half a millionth of it), so that a
\* document first in both lists scores 0.016393; and no document scores more
\* than one that is ranked at least as well in both lists.
C5_RoundedScore ==
    rrf_pc = "returned" =>
        /\ FusedOnceEach
        /\ \A i \in 1..Len(fused) :
               2 * Abs(fused[i].similarity_score * ClaimedDen(fused[i].id)
                       - Million * ClaimedNum(fused[i].id))
                   <= ClaimedDen(fused[i].id)
        /\ \A i \in 1..Len(fused) :
               (/\ RankIn(semantic_results, fused[i].id) = 1
                /\ RankIn(fts_results, fused[i].id) = 1)
               => fused[i].similarity_score = 16393
        /\ FusedMonotone

C5_Witness ==
    /\ rrf_pc = "returned"
    /\ Len(semantic_results) = MaxList
    /\ Len(fts_results) >= 2
    /\ semantic_results[1].id = fts_results[1].id
    /\ fused[1].similarity_score = 16393
    /\ \E i \in 1..Len(fused) : RankIn(semantic_results, fused[i].id) = 0
    /\ \E i \in 1..Len(fused) : RankIn(fts_results, fused[i].id) = 0

\* ------------------------------------------------------------------------
\* TriageAgent._rerank
\* ------------------------------------------------------------------------

RERANK_CANDIDATE_COUNT == 15

MaxCandidates == 17           \* longest candidate list handed to _rerank
MaxRankedIds == 3             \* longest JSON array the provider answers with

\* Candidates as the callers build them: the ids of the three tables are
\* distinct (KB-, SCRIPT- and CS- ids), each id occurs once.
CandidateIds ==
    <<"KB-1", "SCRIPT-1", "CS-1", "KB-2", "SCRIPT-2", "KB-3", "SCRIPT-3", "KB-4",
      "SCRIPT-4", "KB-5", "SCRIPT-5", "KB-6", "SCRIPT-6", "CS-4", "CS-5", "CS-6",
      "CS-2", "CS-3">>

\* style "ranked": as _build_ranked_results leaves them (rank i);
\* style "merged": as _parallel_search leaves them (no rank key).
CandidateList(ids, style) ==
    [i \in 1..Len(ids) |->
        [Row(ids[i], 16393 - 100 * i) EXCEPT
            !.rank = IF style = "ranked" THEN Num(i) ELSE Missing]]

RerankCandidateLists ==
    {CandidateList(SubSeq(CandidateIds, 1, n), style) :
        n \in 0..(IF MaxCandidates < Len(CandidateIds) THEN MaxCandidates ELSE Len(CandidateIds)),
        style \in {"ranked", "merged"}}
    \cup {CandidateList(ids, "ranked") :
            ids \in {<<"KB-1", "CS-2", "SCRIPT-1">>, <<"CS-3", "KB-1">>}}

RankedIdValues ==
    {Str("KB-1"), Str("SCRIPT-1"), Str("CS-1"), Str("CS-5"), Str("CS-6"),
     Str("KB-999"), Num(2), JsonList}

RECURSIVE SeqsUpTo(_, _)
SeqsUpTo(S, n) ==
    IF n = 0 THEN {<<>>}
    ELSE LET shorter == SeqsUpTo(S, n - 1)
         IN shorter \cup {Append(a, x) : a \in {b \in shorter : Len(b) = n - 1}, x \in S}

RerankReplies ==
    {ApiError, NoContent, Content(<<Word, Space, Word>>),
     Content(Plain(EmptyObject)), Content(Plain(Str("KB-1"))), Content(Plain(Null)),
     Content(Fenced(List(<<Str("SCRIPT-1"), Str("KB-1")>>))),
     Content(Chatty(List(<<Str("SCRIPT-1"), Str("KB-1")>>)))}
    \cup {Content(Plain(List(ids))) : ids \in SeqsUpTo(RankedIdValues, MaxRankedIds)}

\* c.get("title", "")[:120]: slicing None raises TypeError
SliceOf(v) == IF v.t = "null" THEN Raise("TypeError") ELSE Ok(v)

\* The loop that builds the previews, before the try block.
rerank_previews(to_rerank) ==
    IF \E i \in 1..Len(to_rerank) :
           \/ SliceOf(to_rerank[i].title).exc # "none"
           \/ SliceOf(to_rerank[i].content_preview).exc # "none"
    THEN Raise("TypeError")
    ELSE Ok(to_rerank)

\* doc_id in id_to_candidate: a list or an object cannot be hashed
IsHashable(v) == v.t \notin {"list", "obj"}

\* The loop over ranked_ids: each id still in id_to_candidate is popped.
RECURSIVE PopRanked(_, _)
PopRanked(ranked_ids, remaining) ==
    IF ranked_ids = <<>> THEN <<>>
    ELSE LET doc_id == Head(ranked_ids)
         IN IF doc_id.t = "str" /\ doc_id.s \in remaining
            THEN <<doc_id.s>> \o PopRanked(Tail(ranked_ids), remaining \ {doc_id.s})
            ELSE PopRanked(Tail(ranked_ids), remaining)

\* for i, item in enumerate(items, start=1): item["rank"] = i
Renumbered(items) == [i \in 1..Len(items) |-> [items[i] EXCEPT !.rank = Num(i)]]

\* The candidate of a list with a given id (the last one, as the dict
\* comprehension keeps it).
CandidateWithId(list, id) == list[Max({i \in 1..Len(list) : list[i].id = id})]

\* Mutant: the candidates the provider left out come first.
Reordered_OmittedFirst(to_rerank, ranked_ids) ==
    LET named == PopRanked(ranked_ids, Range(IdsOf(to_rerank)))
        left == Range(IdsOf(to_rerank)) \ Range(named)
    IN SelectSeq(to_rerank, LAMBDA c : c.id \in left)
       \o [i \in 1..Len(named) |-> CandidateWithId(to_rerank, named[i])]

\* reranked: the candidates the provider named, in its order, then the ones
\* still in id_to_candidate, in their original order.
Reordered(to_rerank, ranked_ids) ==
    LET named == PopRanked(ranked_ids, Range(IdsOf(to_rerank)))
        left == Range(IdsOf(to_rerank)) \ Range(named)
    IN [i \in 1..Len(named) |-> CandidateWithId(to_rerank, named[i])]
       \o SelectSeq(to_rerank, LAMBDA c : c.id \in left)

\* The body of the try block.
rerank_try(cands, reply) ==
    IF reply.exc # "none" THEN Raise(reply.exc)
    ELSE
    LET to_rerank == Prefix(cands, RERANK_CANDIDATE_COUNT)
        remainder == Suffix(cands, RERANK_CANDIDATE_COUNT)
        loaded == json_loads(strip_markdown_fences(ContentOr(reply, Plain(JsonList))))
    IN IF loaded.exc # "none" THEN loaded
       ELSE IF loaded.val.t # "list" THEN Ok(cands)
       ELSE IF \E i \in 1..Len(loaded.val.items) : ~IsHashable(loaded.val.items[i])
       THEN Raise("TypeError")
       ELSE Ok(Renumbered(Reordered(to_rerank, loaded.val.items) \o remainder))

_rerank(cands, reply) ==
    LET r == rerank_try(cands, reply)
    IN IF r.exc = "none" THEN r
       ELSE IF CaughtByExceptException(r.exc) THEN Ok(cands)
       ELSE r

\* _rerank up to the provider call: the previews are built first, and an
\* exception there leaves _rerank before the call is made.
Rerank ==
    /\ rr_pc = "start"
    /\ LET p == rerank_previews(Prefix(candidates, RERANK_CANDIDATE_COUNT))
       IN IF p.exc # "none"
          THEN /\ rr_pc' = "raised"
               /\ UNCHANGED <<reranked, llm_calls>>
          ELSE \E reply \in RerankReplies :
                  LET r == _rerank(candidates, reply)
                  IN /\ llm_calls' = Append(llm_calls, LlmCall("rerank", reply))
                     /\ rr_pc' = IF r.exc = "none" THEN "returned" ELSE "raised"
                     /\ reranked' = IF r.exc = "none" THEN r.val ELSE <<>>
    /\ UNCHANGED <<question, candidates, cls_vars, route_vars, rrf_vars, gap_vars,
                   fan_vars, tri_vars, sa_vars,
                   dec_vars, syn_vars, dr_vars,
                   cfg_vars>>

RerankReply == llm_calls[Len(llm_calls)].reply

\* How many items of a list have a given id.
Count(list, id) == Cardinality({i \in 1..Len(list) : list[i].id = id})

\* a candidate, whatever rank it carries
Unranked(c) == [c EXCEPT !.rank = Missing]

\* Every list _rerank returns holds exactly the candidates it was given: the
\* same length, every candidate once, none dropped and none duplicated.
ReturnedKeepsCandidates ==
    rr_pc = "returned" =>
        /\ Len(reranked) = Len(candidates)
        /\ \A i \in 1..Len(candidates) : Count(reranked, candidates[i].id) = 1
        /\ {Unranked(reranked[i]) : i \in 1..Len(reranked)}
               = {Unranked(candidates[i]) : i \in 1..Len(candidates)}

\* C8: for every candidate list and whatever the provider answers, _rerank
\* returns a list, and it holds exactly the candidates it was given: the same
\* length, every candidate once, none dropped and none duplicated.
C8_RerankKeepsCandidates ==
    /\ rr_pc # "raised"
    /\ ReturnedKeepsCandidates

\* The reranking step failed: a provider error, an unparsable reply, a reply
\* that is not a list, or a list with an item that cannot be looked up.
RerankStepFailed(reply) ==
    LET loaded == LoadedReply(reply, Plain(JsonList))
    IN \/ loaded.exc # "none"
       \/ loaded.val.t # "list"
       \/ \E i \in 1..Len(loaded.val.items) : ~IsHashable(loaded.val.items[i])

\* The provider's list, and the place where it first names an id (0 when it
\* does not).
RankedIds == LoadedReply(RerankReply, Plain(JsonList)).val.items
RerankReplyIsList ==
    LET loaded == LoadedReply(RerankReply, Plain(JsonList))
    IN loaded.exc = "none" /\ loaded.val.t = "list"
FirstNamedAt(id) ==
    IF \E i \in 1..Len(RankedIds) : RankedIds[i] = Str(id)
    THEN Min({i \in 1..Len(RankedIds) : RankedIds[i] = Str(id)})
    ELSE 0
PlaceOf(list, id) == Min({i \in 1..Len(list) : list[i].id = id})

\* The returned list is: the first-15 candidates the provider named, in the
\* provider's order, then the first-15 candidates it left out in their
\* original order, then the candidates beyond the first 15 in their order,
\* and the i-th item has rank i.
RerankedAsProviderOrdered ==
    LET head == Prefix(candidates, RERANK_CANDIDATE_COUNT)
        named == {i \in 1..Len(head) : FirstNamedAt(head[i].id) > 0}
        k == Cardinality(named)
    IN /\ Len(reranked) = Len(candidates)
       /\ \A i \in 1..Len(reranked) :
              /\ reranked[i].rank = Num(i)
              /\ Unranked(reranked[i]) = Unranked(candidates[PlaceOf(candidates, reranked[i].id)])
       /\ \A i \in 1..k : FirstNamedAt(reranked[i].id) > 0
       /\ \A i, j \in 1..k :
              i < j => FirstNamedAt(reranked[i].id) < FirstNamedAt(reranked[j].id)
       /\ \A i \in (k + 1)..Len(head) :
              /\ FirstNamedAt(reranked[i].id) = 0
              /\ PlaceOf(candidates, reranked[i].id) <= Len(head)
       /\ \A i, j \in (k + 1)..Len(head) :
              i < j => PlaceOf(candidates, reranked[i].id) < PlaceOf(candidates, reranked[j].id)
       /\ \A i \in (Len(head) + 1)..Len(candidates) : reranked[i].id = candidates[i].id

\* C23 as stated: whenever the provider returns a JSON list, the output is
\* the named first-15 candidates in the provider's order, then the omitted
\* ones, then the candidates beyond the first 15, and the i-th item has
\* rank i.
C23_AnyJsonList ==
    (rr_pc = "returned" /\ RerankReplyIsList) => RerankedAsProviderOrdered

\* C23, amended: the same whenever the provider returns a JSON list of
\* strings, numbers and nulls; a list with an element that is itself a list
\* or an object is a failed rerank.
C23_JsonListOfScalars ==
    (/\ rr_pc = "returned"
     /\ RerankReplyIsList
     /\ \A i \in 1..Len(RankedIds) : IsHashable(RankedIds[i]))
    => RerankedAsProviderOrdered

\* More than 15 candidates; the provider names two of the first 15 out of
\* their order, one of them twice, and an id that is not a candidate.
C23_Witness ==
    /\ rr_pc = "returned"
    /\ Len(candidates) > RERANK_CANDIDATE_COUNT
    /\ RerankReply = Content(Plain(List(<<Str("CS-1"), Str("KB-999"), Str("CS-1")>>)))
    /\ reranked[1].id = "CS-1"
    /\ reranked[2].id = "KB-1"

C23_WitnessTwoNamed ==
    /\ rr_pc = "returned"
    /\ RerankReplyIsList
    /\ Len(candidates) > 3
    /\ reranked[1].id = "SCRIPT-1"
    /\ reranked[2].id = "CS-1"
    /\ reranked[3].id = "KB-1"

\* C18: for every candidate list, candidates with a null title or preview
\* included, _rerank does not raise, and whenever the reranking step fails it
\* returns the candidates in their original order with their rank fields as
\* they were.
C18_RerankFailureKeepsOrder ==
    /\ rr_pc # "raised"
    /\ (rr_pc = "returned" /\ RerankStepFailed(RerankReply)) => reranked = candidates

\* ------------------------------------------------------------------------
\* GapDetectionAgent
\* ------------------------------------------------------------------------

KB_GAP_THRESHOLD == 85        \* 0.85, in hundredths

Bool(b) == [t |-> "bool", b |-> b]

\* Cosine similarities of the best article, in hundredths.
SimilarityValues == {-10, 0, 50, 69, 70, 71, 84, 85, 86, 100}
GapThresholds == {KB_GAP_THRESHOLD, 70}

\* Outcomes of embedding_service.embed and of the query of find_best_kb_match.
EmbedOutcomes == {Ok("embedding"), Raise("APIError")}
BestMatchOutcomes ==
    {Raise("DBAPIError"), Ok(<<>>)}
    \cup {Ok(<<Row(id, sc)>>) : id \in {"KB-1", "KB-2"}, sc \in SimilarityValues}

\* VectorSearchService.find_best_kb_match: results[0] if results else None
find_best_kb_match(results) == IF results # <<>> THEN results[1] ELSE Null

GapObjects ==
    [t : {"obj"},
     gap_detected : {Bool(TRUE), Bool(FALSE), Str("yes"), Null, Missing},
     gap_description : {Str("steps missing from the article"), Missing},
     suggested_title : {Str("Fixing voucher sync"), Null, Missing}]

EmptyGapObject ==
    [t |-> "obj", gap_detected |-> Missing, gap_description |-> Missing,
     suggested_title |-> Missing]

GapReplies ==
    {ApiError, NoContent, Content(<<Word, Space, Word>>), Content(Plain(JsonList)),
     Content(Plain(Null)), Content(Plain(Bool(TRUE)))}
    \cup {Content(Plain(o)) : o \in GapObjects}
    \cup {Content(Fenced(o)) : o \in GapObjects}

GapFallback ==
    [t |-> "obj", gap_detected |-> Bool(TRUE),
     gap_description |-> Str("No existing KB match above threshold; LLM confirmation failed."),
     suggested_title |-> Str("Resolving category Issues")]

\* The body of the try block: whatever json.loads gives is returned.
confirm_gap_try(reply) ==
    IF reply.exc # "none" THEN Raise(reply.exc)
    ELSE json_loads(strip_markdown_fences(ContentOr(reply, Plain(EmptyGapObject))))

_confirm_gap_with_llm(reply) ==
    LET r == confirm_gap_try(reply)
    IN IF r.exc = "none" THEN r
       ELSE IF CaughtByExceptException(r.exc) THEN Ok(GapFallback)
       ELSE r

\* best_match is None
IsNone(v) == DOMAIN v = {"t"} /\ v.t = "null"

\* Mutant: an equal similarity counts as below the threshold.
MeetsThreshold_Strict(match, threshold) ==
    ~IsNone(match) /\ match.similarity_score > threshold

\* best_match and best_match["similarity_score"] >= self.gap_threshold
MeetsThreshold(match, threshold) ==
    ~IsNone(match) /\ match.similarity_score >= threshold

\* The response built when the best article meets the threshold.
CoveredResponse(match) ==
    [gap_detected |-> Bool(FALSE),
     gap_description |-> Str("Existing KB article covers this scenario."),
     suggested_title |-> Null,
     best_match_id |-> Str(match.id),
     best_match_similarity |-> match.similarity_score,
     llm_confirmed |-> FALSE]

\* The response built from what _confirm_gap_with_llm returned:
\* gap_result["gap_detected"] needs a dict that has the key.
ConfirmedResponse(gap_result, match) ==
    IF gap_result.t # "obj" THEN Raise("TypeError")
    ELSE IF gap_result.gap_detected.t = "missing" THEN Raise("KeyError")
    ELSE Ok([gap_detected |-> gap_result.gap_detected,
             gap_description |-> Get(gap_result.gap_description, Str("")),
             suggested_title |-> Get(gap_result.suggested_title, Null),
             best_match_id |-> IF ~IsNone(match) THEN Str(match.id) ELSE Null,
             best_match_similarity |-> IF ~IsNone(match) THEN match.similarity_score ELSE 0,
             llm_confirmed |-> TRUE])

\* Step 1: await self.embedding_service.embed(embed_text)
GapEmbed ==
    /\ gap_pc = "start"
    /\ \E e \in EmbedOutcomes :
          gap_pc' = IF e.exc = "none" THEN "embedded" ELSE "raised"
    /\ UNCHANGED <<gap_threshold, best_match, gap_response, req_vars, cls_vars,
                   route_vars, rrf_vars, rr_vars, fan_vars, tri_vars, sa_vars,
                   dec_vars, syn_vars, dr_vars,
                   cfg_vars>>

\* Step 2: await self.search_service.find_best_kb_match(query_embedding)
GapFindBest ==
    /\ gap_pc = "embedded"
    /\ \E rows \in BestMatchOutcomes :
          IF rows.exc # "none"
          THEN gap_pc' = "raised" /\ UNCHANGED best_match
          ELSE gap_pc' = "matched" /\ best_match' = find_best_kb_match(rows.val)
    /\ UNCHANGED <<gap_threshold, gap_response, req_vars, cls_vars, route_vars,
                   rrf_vars, rr_vars, fan_vars, tri_vars, sa_vars,
                   dec_vars, syn_vars, dr_vars,
                   cfg_vars>>

\* Steps 3 and 4: the threshold check, and below it the confirmation.
GapDecide ==
    /\ gap_pc = "matched"
    /\ IF MeetsThreshold(best_match, gap_threshold)
       THEN /\ gap_response' = CoveredResponse(best_match)
            /\ gap_pc' = "returned"
            /\ UNCHANGED llm_calls
       ELSE \E reply \in GapReplies :
               LET g == _confirm_gap_with_llm(reply)
                   r == IF g.exc = "none" THEN ConfirmedResponse(g.val, best_match) ELSE g
               IN /\ llm_calls' = Append(llm_calls, LlmCall("gap", reply))
                  /\ gap_pc' = IF r.exc = "none" THEN "returned" ELSE "raised"
                  /\ gap_response' = IF r.exc = "none" THEN r.val ELSE NoValue
    /\ UNCHANGED <<question, gap_threshold, best_match, cls_vars, route_vars,
                   rrf_vars, rr_vars, fan_vars, tri_vars, sa_vars,
                   dec_vars, syn_vars, dr_vars,
                   cfg_vars>>

\* C9: whenever a best article exists and its similarity is at or above the
\* threshold, the run makes no call to the generation provider and returns
\* gap_detected = false.
C9_AboveThresholdNoLlm ==
    (/\ gap_pc \in {"matched", "returned", "raised"}
     /\ ~IsNone(best_match)
     /\ best_match.similarity_score >= gap_threshold)
    => /\ llm_calls = <<>>
       /\ gap_pc \in {"matched", "returned"}
       /\ gap_pc = "returned" => gap_response.gap_detected = Bool(FALSE)

\* the best article scores exactly the default threshold
C9_Witness ==
    /\ gap_pc = "returned"
    /\ gap_threshold = 85
    /\ ~IsNone(best_match)
    /\ best_match.similarity_score = 85
    /\ gap_response.gap_detected = Bool(FALSE)
    /\ llm_calls = <<>>

\* The reply of the confirmation call, and whether the confirmation failed:
\* a provider error, an unparsable reply, or a reply that is not an object
\* with a boolean gap_detected.
GapReply == llm_calls[Len(llm_calls)].reply
GapConfirmationFailed(reply) ==
    \/ ~ReplyIsObject(reply, Plain(EmptyGapObject))
    \/ ReplyObject(reply, Plain(EmptyGapObject)).gap_detected.t # "bool"

\* GapDecide took the branch below the threshold.
GapBelowThresholdDecided ==
    \/ /\ gap_pc = "returned"
       /\ IsNone(best_match) \/ best_match.similarity_score < gap_threshold
    \/ /\ gap_pc = "raised"
       /\ llm_calls # <<>>

\* C15: when the best article is below the threshold or there is none, the
\* run asks the generation provider exactly once; when that confirmation
\* fails (provider error, unparsable reply, no boolean gap_detected) the run
\* still returns, with gap_detected = true and the generated description
\* and title.
C15_GapConfirmationFailsSafe ==
    GapBelowThresholdDecided =>
        /\ Len(llm_calls) = 1
        /\ GapConfirmationFailed(GapReply) =>
               /\ gap_pc = "returned"
               /\ gap_response.gap_detected = Bool(TRUE)
               /\ gap_response.gap_description = GapFallback.gap_description
               /\ gap_response.suggested_title = GapFallback.suggested_title

\* ------------------------------------------------------------------------
\* VectorSearchService.search_all over the document index
\* ------------------------------------------------------------------------

HYBRID_SEARCH_OVERFETCH == 20
SEARCH_RESULT_LIMIT == 5

NumIndexVariants == 2         \* contents of the index that are tried

\* The texts that are embedded or searched for.
SubQueryTextA == "reset password steps"
SubQueryTextB == "password reset script"
RewrittenQuery == "voucher sync remediation script"

TextNo(text) ==
    CASE text = SubQueryTextA -> 1
      [] text = SubQueryTextB -> 2
      [] text = RewrittenQuery -> 3
      [] OTHER -> 4

\* The table a pool is searched in; any other value searches the articles.
TableIds(answer_type) ==
    LET all == CASE answer_type = "SCRIPT" -> ScriptIds
                 [] answer_type = "KB" -> KbIds
                 [] answer_type = "TICKET_RESOLUTION" -> TicketIds
                 [] OTHER -> KbIds
    IN Prefix(all, NumDocs)

Rotate(seq, k) ==
    IF seq = <<>> THEN <<>>
    ELSE [i \in 1..Len(seq) |-> seq[((i - 1 + k) % Len(seq)) + 1]]

\* The variant after the numbered ones holds the large table of articles.
IsLargeIndex(variant, answer_type) ==
    variant = NumIndexVariants /\ answer_type \notin {"SCRIPT", "TICKET_RESOLUTION"}

\* The large table by ts_rank for any query: all its rows match.
LargeFtsOrder ==
    <<"KB-22", "KB-21", "KB-1", "KB-10", "KB-6", "KB-2", "KB-5", "KB-7", "KB-8", "KB-9",
      "KB-11", "KB-12", "KB-3", "KB-13", "KB-14", "KB-15", "KB-16", "KB-17", "KB-18",
      "KB-4", "KB-19", "KB-20">>

\* In variant 1 the rows that match a full-text query all have the same
\* ts_rank.
FtsRows(variant, ids) ==
    IF variant = 1 THEN [i \in 1..Len(ids) |-> Row(ids[i], 10)] ELSE RowsOf(ids)

\* What the index holds: for a table and a query, the rows by cosine
\* distance (every row that has an embedding) and the rows that match the
\* full-text query by ts_rank.  The content is an input; each variant ranks
\* the rows of a table differently for different queries.
IndexSemantic(variant, answer_type, text) ==
    IF IsLargeIndex(variant, answer_type)
    THEN RowsOf(Rotate(LargeKbIds, SEARCH_RESULT_LIMIT * (TextNo(text) % 4)))
    ELSE RowsOf(Rotate(TableIds(answer_type), TextNo(text) + variant))
IndexFts(variant, answer_type, text) ==
    IF IsLargeIndex(variant, answer_type) THEN RowsOf(LargeFtsOrder)
    ELSE FtsRows(variant,
                 Prefix(Rotate(TableIds(answer_type), 2 * TextNo(text) + 3 * variant),
                        (TextNo(text) + variant) % 3))

\* embedding_service.embed / embed_batch: one vector per text, in order
Emb(text) == [emb |-> text]
embed_batch(texts) == [i \in 1..Len(texts) |-> Emb(texts[i])]

\* Mutant: each list is cut to the limit before the fusion.
search_all_result_CutFirst(semantic, fts, limit) ==
    reciprocal_rank_fusion(Prefix(semantic, limit), Prefix(fts, limit))

\* results = reciprocal_rank_fusion(semantic, fts)[:limit]
search_all_result(semantic, fts, limit) ==
    Prefix(reciprocal_rank_fusion(semantic, fts), limit)

\* if raw_question: None and the empty string make no full-text query
HasQueryText(raw_question) == raw_question.t = "str" /\ raw_question.s # ""

\* search_all once both queries have returned, each with its rows in the
\* order the index lists them; without a raw_question no full-text query is
\* made.
search_all(variant, embedding, answer_type, limit, raw_question) ==
    LET semantic == Prefix(IndexSemantic(variant, answer_type, embedding.emb.s),
                           HYBRID_SEARCH_OVERFETCH)
        fts == IF HasQueryText(raw_question)
               THEN Prefix(IndexFts(variant, answer_type, raw_question.s),
                           HYBRID_SEARCH_OVERFETCH)
               ELSE <<>>
    IN search_all_result(semantic, fts, limit)

\* The number of queries search_all awaits on the session.
QueriesOfSearchAll(raw_question) == IF HasQueryText(raw_question) THEN 2 ELSE 1

\* ORDER BY ... LIMIT n: the orders a query may return its rows in.  Rows
\* with equal sort keys come in any order, the query has no second key.
RECURSIVE TieOrders(_)
TieOrders(rows) ==
    IF rows = {} THEN {<<>>}
    ELSE LET top == Max({r.similarity_score : r \in rows})
         IN UNION {{<<h>> \o t : t \in TieOrders(rows \ {h})} :
                      h \in {r \in rows : r.similarity_score = top}}

QueryOutcomes(rows, limit) ==
    {Raise("DBAPIError")} \cup {Ok(Prefix(o, limit)) : o \in TieOrders(Range(rows))}

\* search_all returns: the results of this run, and of the first run.
SearchReturn(semantic, fts) ==
    LET results == search_all_result(semantic, fts, search_args.limit)
    IN /\ search_results' = results
       /\ first_results' = IF search_run = 1 THEN results ELSE first_results
       /\ search_pc' = "returned"

\* semantic = await self.search_...(query_embedding, overfetch)
SearchSemantic ==
    /\ search_pc = "semantic"
    /\ \E r \in QueryOutcomes(IndexSemantic(index_variant, search_args.answer_type,
                                             search_args.query_embedding.emb.s),
                               HYBRID_SEARCH_OVERFETCH) :
          IF r.exc # "none"
          THEN /\ search_pc' = "raised"
               /\ UNCHANGED <<semantic_results, first_results, search_results>>
          ELSE /\ semantic_results' = r.val
               /\ IF HasQueryText(search_args.raw_question)
                  THEN /\ search_pc' = "fts"
                       /\ UNCHANGED <<first_results, search_results>>
                  ELSE SearchReturn(r.val, <<>>)
    /\ UNCHANGED <<search_args, search_run, fts_results, rrf_pc, fused, req_vars, cls_vars,
                   route_vars, rr_vars, gap_vars, fan_vars, tri_vars,
                   dec_vars, syn_vars, dr_vars,
                   cfg_vars>>

\* fts = await self.fulltext_search_...(raw_question, overfetch), then the
\* fusion and the cut to the limit
SearchFts ==
    /\ search_pc = "fts"
    /\ \E r \in QueryOutcomes(IndexFts(index_variant, search_args.answer_type,
                                        search_args.raw_question.s),
                               HYBRID_SEARCH_OVERFETCH) :
          IF r.exc # "none"
          THEN /\ search_pc' = "raised"
               /\ UNCHANGED <<fts_results, first_results, search_results>>
          ELSE /\ fts_results' = r.val
               /\ SearchReturn(semantic_results, r.val)
    /\ UNCHANGED <<search_args, search_run, semantic_results, rrf_pc, fused, req_vars,
                   cls_vars, route_vars, rr_vars, gap_vars, fan_vars, tri_vars,
                   dec_vars, syn_vars, dr_vars,
                   cfg_vars>>

\* search_all is called once more with the same arguments on the same index.
SearchAgain ==
    /\ search_pc = "returned"
    /\ search_run = 1
    /\ search_run' = 2
    /\ search_pc' = "semantic"
    /\ semantic_results' = <<>>
    /\ fts_results' = <<>>
    /\ search_results' = <<>>
    /\ UNCHANGED <<search_args, first_results, rrf_pc, fused, req_vars, cls_vars,
                   route_vars, rr_vars, gap_vars, fan_vars, tri_vars,
                   dec_vars, syn_vars, dr_vars,
                   cfg_vars>>

\* The documents of the two lists search_all has fetched, the fused score of
\* one (unrounded, and as returned), and its place among the candidates of
\* the fusion: the semantic list first, then the documents only full-text
\* search returned.
SearchInputIds == Range(IdsOf(semantic_results)) \cup Range(IdsOf(fts_results))
SearchScore(id) == RrfScore(RankIn(semantic_results, id), RankIn(fts_results, id))
CandidateIndex(id) ==
    IF RankIn(semantic_results, id) > 0 THEN RankIn(semantic_results, id)
    ELSE Len(semantic_results) + RankIn(fts_results, id)
SameScore(a, b) == a.num * b.den = b.num * a.den

\* Each list is the overfetch of its query: the first 20 rows, or all.
SearchOverfetched ==
    /\ Len(semantic_results) =
          Min({HYBRID_SEARCH_OVERFETCH,
               Len(IndexSemantic(index_variant, search_args.answer_type,
                                 search_args.query_embedding.emb.s))})
    /\ Len(fts_results) =
          IF HasQueryText(search_args.raw_question)
          THEN Min({HYBRID_SEARCH_OVERFETCH,
                    Len(IndexFts(index_variant, search_args.answer_type,
                                 search_args.raw_question.s))})
          ELSE 0

\* C20: for every pool, embedding, limit and optional query text the list
\* search_all returns has at most limit hits, no document id twice, is in
\* non-increasing order of fused score, and holds the limit highest-scored
\* documents of the fusion of the two overfetched lists; without a query
\* text the lexical list is empty and the order is the semantic order.
C20_SearchAllTopOfFusion ==
    search_pc = "returned" =>
        LET res == search_results
            resIds == Range(IdsOf(res))
        IN /\ SearchOverfetched
           /\ Len(res) = Min({search_args.limit, Cardinality(SearchInputIds)})
           /\ \A i, j \in 1..Len(res) : i # j => res[i].id # res[j].id
           /\ \A i, j \in 1..Len(res) :
                  i < j => res[i].similarity_score >= res[j].similarity_score
           /\ \A i \in 1..Len(res) :
                  /\ res[i].id \in SearchInputIds
                  /\ res[i].similarity_score = round6(SearchScore(res[i].id))
                  /\ \A id \in SearchInputIds \ resIds :
                         ~ScoreGreater(SearchScore(id), SearchScore(res[i].id))
           /\ ~HasQueryText(search_args.raw_question) =>
                  /\ fts_results = <<>>
                  /\ IdsOf(res) = Prefix(IdsOf(semantic_results), search_args.limit)

\* Both lists were cut at the overfetch, the lexical list has a document the
\* semantic list lacks, the limit cuts the fusion, and the lexical ranks have
\* changed the semantic order.
C20_Witness ==
    /\ search_pc = "returned"
    /\ Len(semantic_results) = HYBRID_SEARCH_OVERFETCH
    /\ Len(fts_results) = HYBRID_SEARCH_OVERFETCH
    /\ search_args.limit = SEARCH_RESULT_LIMIT
    /\ Len(search_results) = SEARCH_RESULT_LIMIT
    /\ IdsOf(search_results) # Prefix(IdsOf(semantic_results), SEARCH_RESULT_LIMIT)
    /\ \E id \in Range(IdsOf(fts_results)) : RankIn(semantic_results, id) = 0

\* Without a query text: the semantic list alone, in its order.
C20_WitnessNoText ==
    /\ search_pc = "returned"
    /\ ~HasQueryText(search_args.raw_question)
    /\ Len(search_results) > 1
    /\ Len(search_results) < Len(semantic_results)

\* Documents of equal fused score come in the order of the candidates.
TieInCandidateOrder ==
    search_pc = "returned" =>
        \A i, j \in 1..Len(search_results) :
            (/\ i < j
             /\ SameScore(SearchScore(search_results[i].id),
                          SearchScore(search_results[j].id)))
            => CandidateIndex(search_results[i].id) < CandidateIndex(search_results[j].id)

\* Two documents of equal fused score are next to each other in a result.
TieReturned ==
    /\ search_pc = "returned"
    /\ \E i, j \in 1..Len(search_results) :
          /\ i < j
          /\ SameScore(SearchScore(search_results[i].id),
                       SearchScore(search_results[j].id))

\* The second run on the unchanged index returns what the first returned.
SecondRunSame ==
    (search_pc = "returned" /\ search_run = 2) => search_results = first_results

\* C12: with an unchanged index and identical inputs two runs of search_all
\* return the same hits in the same order, and documents of equal fused
\* score are in the order of the candidates: the semantic list first, then
\* the documents only the lexical list has, in its order.
C12_SearchAllIdempotent == SecondRunSame /\ TieInCandidateOrder

\* ------------------------------------------------------------------------
\* DeepResearchAgent._parallel_search
\* ------------------------------------------------------------------------

DEEP_RESEARCH_RESULTS_PER_QUERY == 5
DEEP_RESEARCH_MAX_CONTEXT_ITEMS == 15
SecondaryLimit == 5

MaxSubQueries == 3            \* most sub-queries handed to _parallel_search

SubQuery(query, pool) == [query |-> query, pool |-> pool, aspect |-> "aspect"]

SubQueryLists ==
    {<<SubQuery(SubQueryTextA, "KB")>>,
     <<SubQuery(SubQueryTextA, "KB"), SubQuery(SubQueryTextB, "KB")>>,
     <<SubQuery(SubQueryTextA, "SCRIPT"), SubQuery(SubQueryTextB, "TICKET_RESOLUTION")>>,
     <<SubQuery(SubQueryTextA, "KB"), SubQuery(SubQueryTextB, "SCRIPT"),
       SubQuery(SubQueryTextB, "KB")>>,
     <<SubQuery(SubQueryTextA, "KB"), SubQuery(SubQueryTextB, "KB"),
       SubQuery(SubQueryTextA, "SCRIPT"), SubQuery(SubQueryTextB, "TICKET_RESOLUTION")>>}

\* _POOL_TO_ANSWER_TYPE.get(sq["pool"], "KB")
PoolToAnswerType(pool) == IF pool \in {"KB", "SCRIPT", "TICKET_RESOLUTION"} THEN pool ELSE "KB"

\* Mutant: an article's secondary pool is the articles again.
_secondary_pool_KbToKb(primary) ==
    IF primary = "SCRIPT" THEN "KB"
    ELSE "KB"

\* _secondary_pool
_secondary_pool(primary) ==
    IF primary = "SCRIPT" THEN "KB"
    ELSE IF primary = "KB" THEN "SCRIPT"
    ELSE "KB"

\* if "source_type" not in r: r["source_type"] = answer_type
TagIfAbsent(results, answer_type) ==
    [i \in 1..Len(results) |->
        IF results[i].source_type.t = "missing"
        THEN [results[i] EXCEPT !.source_type = Str(answer_type)]
        ELSE results[i]]

\* What _search_one returns when its queries succeed.
_search_one(variant, sq, embedding) ==
    LET answer_type == PoolToAnswerType(sq.pool)
    IN TagIfAbsent(search_all(variant, embedding, answer_type,
                              DEEP_RESEARCH_RESULTS_PER_QUERY, Str(sq.query)),
                   answer_type)

\* What _baseline_search returns when its queries succeed.
_baseline_search(variant, cls, baseline_query, baseline_embedding) ==
    LET primary_type == cls.answer_type
        secondary_pool == _secondary_pool(primary_type)
    IN TagIfAbsent(search_all(variant, baseline_embedding, primary_type,
                              SEARCH_RESULT_LIMIT, baseline_query), primary_type)
       \o TagIfAbsent(search_all(variant, baseline_embedding, secondary_pool,
                                 SecondaryLimit, baseline_query), secondary_pool)

\* The position of the item with a given id in a list, 0 when there is none.
IndexOfId(list, id) ==
    IF \E i \in 1..Len(list) : list[i].id = id
    THEN Min({i \in 1..Len(list) : list[i].id = id})
    ELSE 0

\* Mutant: the scores of a document found by several searches add up.
SeenAfter_Sum(seen, item) ==
    LET at == IndexOfId(seen, item.id)
    IN IF at = 0 THEN Append(seen, item)
       ELSE [seen EXCEPT ![at].similarity_score = @ + item.similarity_score]

\* seen[doc_id] = item, when doc_id is new or item scores higher; a key keeps
\* the place of its first insertion.
SeenAfter(seen, item) ==
    LET at == IndexOfId(seen, item.id)
    IN IF at = 0 THEN Append(seen, item)
       ELSE IF item.similarity_score > seen[at].similarity_score
       THEN [seen EXCEPT ![at] = item]
       ELSE seen

RECURSIVE SeenOver(_, _)
SeenOver(seen, items) ==
    IF items = <<>> THEN seen
    ELSE SeenOver(SeenAfter(seen, Head(items)), Tail(items))

\* Mutant: the first failed task ends the merge.
RECURSIVE SuccessfulItems_StopAtFailure(_)
SuccessfulItems_StopAtFailure(all_results) ==
    IF all_results = <<>> THEN <<>>
    ELSE IF Head(all_results).exc # "none" THEN <<>>
    ELSE Head(all_results).val \o SuccessfulItems_StopAtFailure(Tail(all_results))

\* The items of the batches that are not exceptions, in the order of the
\* tasks.
RECURSIVE SuccessfulItems(_)
SuccessfulItems(all_results) ==
    IF all_results = <<>> THEN <<>>
    ELSE (IF Head(all_results).exc # "none" THEN <<>> ELSE Head(all_results).val)
         \o SuccessfulItems(Tail(all_results))

\* Merge and deduplicate by id, sort by score descending, take the top N.
MergeResults(all_results) ==
    LET seen == SeenOver(<<>>, SuccessfulItems(all_results))
        sorted == SortedDesc([i \in 1..Len(seen) |->
                     [x |-> seen[i], key |-> [num |-> seen[i].similarity_score, den |-> 1]]])
    IN Prefix([i \in 1..Len(sorted) |-> sorted[i].x], DEEP_RESEARCH_MAX_CONTEXT_ITEMS)

\* A task handed to asyncio.gather.  queries is the number of queries it
\* awaits on the session, pc the number it has issued; status is "pending",
\* "running" (query pc is in flight), "done" or "failed"; seq is its place
\* in the order in which the tasks finished, 0 while it runs.
NewTask(kind, embedding, queries) ==
    [kind |-> kind, embedding |-> embedding, queries |-> queries, pc |-> 0,
     status |-> "pending", outcome |-> NoValue, seq |-> 0]

Finished(task) == task.status \in {"done", "failed"}
FinishedCount(ts) == Cardinality({i \in 1..Len(ts) : Finished(ts[i])})

\* The embedding provider rejects a text that is not a non-empty string.
Embeddable(text) == text.t = "str" /\ text.s # ""
EmbedBatchOutcomes(texts) ==
    IF \A i \in 1..Len(texts) : Embeddable(texts[i])
    THEN {Ok(embed_batch(texts)), Raise("APIError")}
    ELSE {Raise("APIError")}

\* query_texts: the sub-query texts, then the baseline query
QueryTexts(sqs, cls) ==
    [i \in 1..Len(sqs) |-> Str(sqs[i].query)] \o <<cls.search_query>>

\* Mutant: the baseline search takes the first embedding of the batch.
TasksFor_BaselineFirstEmbedding(sqs, cls, embeddings) ==
    [i \in 1..Len(sqs) |->
        NewTask("sub_query", embeddings[i], QueriesOfSearchAll(Str(sqs[i].query)))]
    \o <<NewTask("baseline", embeddings[1],
                 2 * QueriesOfSearchAll(cls.search_query))>>

\* tasks = [_search_one(sq, emb) ...] + [_baseline_search()]
TasksFor(sqs, cls, embeddings) ==
    [i \in 1..Len(sqs) |->
        NewTask("sub_query", embeddings[i], QueriesOfSearchAll(Str(sqs[i].query)))]
    \o <<NewTask("baseline", embeddings[Len(embeddings)],
                 2 * QueriesOfSearchAll(cls.search_query))>>

\* embed_batch, then the tasks are handed to gather
FanStart ==
    /\ fan_pc = "start"
    /\ LET query_texts == QueryTexts(sub_queries, classification)
       IN /\ embed_calls' = Append(embed_calls, query_texts)
          /\ \E r \in EmbedBatchOutcomes(query_texts) :
                IF r.exc # "none"
                THEN fan_pc' = "raised" /\ UNCHANGED tasks
                ELSE /\ fan_pc' = "gathering"
                     /\ tasks' = TasksFor(sub_queries, classification, r.val)
    /\ UNCHANGED <<sub_queries, index_variant, merged, req_vars, cls_vars, route_vars,
                   rrf_vars, rr_vars, gap_vars, tri_vars, sa_vars,
                   dec_vars, syn_vars, dr_vars,
                   cfg_vars>>

\* What task i returns when none of its queries fails.
TaskHits(i) ==
    IF tasks[i].kind = "sub_query"
    THEN _search_one(index_variant, sub_queries[i], tasks[i].embedding)
    ELSE _baseline_search(index_variant, classification, classification.search_query,
                          tasks[i].embedding)

\* The event loop resumes task i: it issues its first query, or the query
\* in flight returns or raises; after a query returns the task runs on to
\* its next await or to its end.
TaskStepOf(i) ==
    /\ fan_pc = "gathering"
    /\ i \in 1..Len(tasks)
    /\ ~Finished(tasks[i])
    /\ \/ /\ tasks[i].status = "pending"
          /\ tasks' = [tasks EXCEPT ![i].status = "running", ![i].pc = 1]
       \/ /\ tasks[i].status = "running"
          /\ \E ok \in BOOLEAN :
                tasks' = IF ~ok
                         THEN [tasks EXCEPT ![i].status = "failed",
                                            ![i].outcome = Raise("DBAPIError"),
                                            ![i].seq = FinishedCount(tasks) + 1]
                         ELSE IF tasks[i].pc < tasks[i].queries
                         THEN [tasks EXCEPT ![i].pc = @ + 1]
                         ELSE [tasks EXCEPT ![i].status = "done",
                                            ![i].outcome = Ok(TaskHits(i)),
                                            ![i].seq = FinishedCount(tasks) + 1]
    /\ UNCHANGED <<fan_pc, sub_queries, index_variant, embed_calls, merged, req_vars,
                   cls_vars, route_vars, rrf_vars, rr_vars, gap_vars, tri_vars, sa_vars,
                   dec_vars, syn_vars, dr_vars,
                   cfg_vars>>

TaskStep == \E i \in 1..Len(tasks) : TaskStepOf(i)

\* The task that finished in place k.
FinishedAt(k) == CHOOSE i \in 1..Len(tasks) : tasks[i].seq = k

\* Mutant: the results in the order in which the tasks completed.
AllResults_AsCompleted == [k \in 1..Len(tasks) |-> tasks[FinishedAt(k)].outcome]

\* all_results of asyncio.gather(*tasks, return_exceptions=True): the
\* results in the order of the awaitables passed in.
AllResults == [i \in 1..Len(tasks) |-> tasks[i].outcome]

\* gather returns once every task has finished; then the merge.
FanMerge ==
    /\ fan_pc = "gathering"
    /\ \A i \in 1..Len(tasks) : Finished(tasks[i])
    /\ merged' = MergeResults(AllResults)
    /\ fan_pc' = "returned"
    /\ UNCHANGED <<sub_queries, index_variant, embed_calls, tasks, req_vars, cls_vars,
                   route_vars, rrf_vars, rr_vars, gap_vars, tri_vars, sa_vars,
                   dec_vars, syn_vars, dr_vars,
                   cfg_vars>>

\* The tasks that returned a list, and the items they returned.
Succeeded(i) == tasks[i].status = "done"
SucceededTasks == {i \in 1..Len(tasks) : Succeeded(i)}
HitsOf(i) == tasks[i].outcome.val
SucceededIds ==
    UNION {{HitsOf(i)[k].id : k \in 1..Len(HitsOf(i))} : i \in SucceededTasks}
MergedIds == {merged[k].id : k \in 1..Len(merged)}

\* The scores an id has in the batches of the tasks that succeeded.
ScoresOf(id) ==
    UNION {{HitsOf(i)[k].similarity_score :
               k \in {j \in 1..Len(HitsOf(i)) : HitsOf(i)[j].id = id}} :
           i \in SucceededTasks}

\* C6: in the merged list of _parallel_search every document id appears at
\* most once, it is an id of a successful batch, and it carries the highest
\* score that id has in any successful batch (not the sum): an id scored
\* 0.4, 0.9 and 0.2 by three batches is merged with 0.9.
C6_MergeKeepsMax ==
    fan_pc = "returned" =>
        /\ \A k, l \in 1..Len(merged) : merged[k].id = merged[l].id => k = l
        /\ \A k \in 1..Len(merged) :
              /\ merged[k].id \in SucceededIds
              /\ merged[k].similarity_score = Max(ScoresOf(merged[k].id))

\* Three batches succeeded, they score one id 0.4, 0.9 and 0.2 in that
\* order, and the merged list has the id with 0.9.
C6_Witness ==
    /\ fan_pc = "returned"
    /\ Len(tasks) = 3
    /\ SucceededTasks = {1, 2, 3}
    /\ \E id \in SucceededIds :
          /\ \A i \in 1..3 : \E k \in 1..Len(HitsOf(i)) :
                /\ HitsOf(i)[k].id = id
                /\ HitsOf(i)[k].similarity_score = <<400000, 900000, 200000>>[i]
          /\ \E k \in 1..Len(merged) :
                merged[k].id = id /\ merged[k].similarity_score = 900000

\* What holds of the fan-out in every state.
FanoutInvariant ==
    /\ fan_pc \in {"gathering", "returned"} =>
          /\ Len(tasks) = Len(sub_queries) + 1
          /\ \A i \in 1..Len(sub_queries) : tasks[i].kind = "sub_query"
          /\ tasks[Len(tasks)].kind = "baseline"
    /\ fan_pc = "raised" => tasks = <<>>
    /\ fan_pc = "gathering" =>
          \A i \in 1..Len(tasks) : ~Finished(tasks[i]) => ENABLED TaskStepOf(i)
    /\ fan_pc = "returned" =>
          /\ \A i \in 1..Len(tasks) :
                \/ tasks[i].status = "done" /\ tasks[i].outcome = Ok(TaskHits(i))
                \/ tasks[i].status = "failed" /\ tasks[i].outcome.exc # "none"
          /\ \A k \in 1..Len(merged) :
                \E i \in SucceededTasks : \E j \in 1..Len(HitsOf(i)) :
                    HitsOf(i)[j] = merged[k]
          /\ \/ SucceededIds \subseteq MergedIds
             \/ Len(merged) = DEEP_RESEARCH_MAX_CONTEXT_ITEMS

\* A step of the gather changes one task; a task that fails leaves its
\* siblings as they are, and a finished task stays finished.
FanoutStep ==
    (fan_pc = "gathering" /\ tasks' # tasks) =>
        /\ fan_pc' = "gathering"
        /\ Len(tasks') = Len(tasks)
        /\ \E i \in 1..Len(tasks) :
              /\ ~Finished(tasks[i])
              /\ \A j \in 1..Len(tasks) : j # i => tasks'[j] = tasks[j]

\* C10: for N sub-queries _parallel_search hands N+1 tasks to the gather
\* (one per sub-query, then the baseline); in every interleaving and for
\* every set of failing tasks, a task that has not finished can always take
\* its next step, a step of one task leaves the others unchanged, every task
\* eventually finishes, the gather ends with every task that did not fail
\* holding its hits, no exception of a task is raised to the caller, and the
\* merged list consists of hits of the tasks that succeeded and has all
\* their ids.
C10_FanoutIsolatesFailures ==
    /\ []FanoutInvariant
    /\ [][FanoutStep]_vars
    /\ (fan_pc = "gathering") ~> (\A i \in 1..Len(tasks) : Finished(tasks[i]))

\* The gather returned although a sub-query task and the baseline failed,
\* and the merged list has the hits of a task that succeeded.
C10_Witness ==
    /\ fan_pc = "returned"
    /\ Len(tasks) = 3
    /\ tasks[1].status = "failed"
    /\ tasks[2].status = "done"
    /\ tasks[3].status = "failed"
    /\ HitsOf(2) # <<>>
    /\ MergedIds = SucceededIds

\* What each task returned, by the task's place in the list handed to the
\* gather, and by the place in which it finished.
OutcomesByTask == [i \in 1..Len(tasks) |-> tasks[i].outcome]
OutcomesByCompletion == [k \in 1..Len(tasks) |-> tasks[FinishedAt(k)].outcome]
CompletionOrder == [i \in 1..Len(tasks) |-> tasks[i].seq]

\* C29: for given per-task results the merged list of _parallel_search (its
\* members, scores and order, the order of equal-score items and the copy
\* kept of a duplicated id included) is the merge of the results taken in
\* the order of the tasks, whatever the order in which the tasks started,
\* were suspended and completed.
C29_MergeIgnoresCompletionOrder ==
    fan_pc = "returned" =>
        /\ \A k \in 1..Len(tasks) : \E i \in 1..Len(tasks) : tasks[i].seq = k
        /\ merged = MergeResults(OutcomesByTask)

\* The last task of the list finished first, and merging the results in
\* the order of completion would give another list.
C29_Witness ==
    /\ fan_pc = "returned"
    /\ Len(tasks) = 3
    /\ CompletionOrder = <<3, 2, 1>>
    /\ merged # <<>>
    /\ MergeResults(OutcomesByCompletion) # merged

\* The same results merged after the tasks finished in the order of the
\* list.
C29_WitnessInOrder ==
    /\ fan_pc = "returned"
    /\ Len(tasks) = 3
    /\ CompletionOrder = <<1, 2, 3>>
    /\ \A i \in 1..3 : tasks[i].status = "done"
    /\ merged # <<>>

\* The tasks that are suspended inside an execute call on self.db.
InFlight == {i \in 1..Len(tasks) : tasks[i].status = "running"}

\* C30: during the fan-out at most one search task at a time has a query in
\* flight on the request's one database session.
C30_OneQueryInFlight == Cardinality(InFlight) <= 1

\* Every task of the gather is suspended inside an execute call on the one
\* session at once.
AllTasksInFlight ==
    /\ fan_pc = "gathering"
    /\ Len(tasks) = MaxSubQueries + 1
    /\ InFlight = 1..Len(tasks)

\* C27: for N sub-queries _parallel_search makes exactly one embed_batch
\* call, with the N sub-query texts in order and then the classifier's
\* rewritten query; the search of the i-th sub-query uses the i-th embedding
\* of the batch and that sub-query's pool and text, and the baseline search
\* uses the last embedding.
C27_OneBatchSplitByPosition ==
    /\ Len(embed_calls) <= 1
    /\ fan_pc \in {"gathering", "returned", "raised"} =>
          /\ Len(embed_calls) = 1
          /\ Len(embed_calls[1]) = Len(sub_queries) + 1
          /\ \A i \in 1..Len(sub_queries) : embed_calls[1][i] = Str(sub_queries[i].query)
          /\ embed_calls[1][Len(sub_queries) + 1] = classification.search_query
    /\ fan_pc \in {"gathering", "returned"} =>
          /\ Len(tasks) = Len(sub_queries) + 1
          /\ \A i \in 1..Len(sub_queries) :
                /\ tasks[i].kind = "sub_query"
                /\ tasks[i].embedding = Emb(Str(sub_queries[i].query))
                /\ tasks[i].status = "done" =>
                      tasks[i].outcome.val =
                         TagIfAbsent(search_all(index_variant, Emb(Str(sub_queries[i].query)),
                                                PoolToAnswerType(sub_queries[i].pool),
                                                DEEP_RESEARCH_RESULTS_PER_QUERY,
                                                Str(sub_queries[i].query)),
                                     PoolToAnswerType(sub_queries[i].pool))
          /\ tasks[Len(tasks)].kind = "baseline"
          /\ tasks[Len(tasks)].embedding = Emb(classification.search_query)

\* Three sub-queries with different texts and pools have been searched,
\* each with its own embedding, and the baseline with the fourth.
C27_Witness ==
    /\ fan_pc = "returned"
    /\ Len(sub_queries) = 3
    /\ Len(embed_calls[1]) = 4
    /\ \A i \in 1..Len(tasks) : tasks[i].status = "done"
    /\ tasks[1].embedding # tasks[2].embedding
    /\ tasks[2].embedding = tasks[3].embedding
    /\ tasks[4].embedding \notin {tasks[1].embedding, tasks[2].embedding}
    /\ HitsOf(2) # HitsOf(3)

\* ------------------------------------------------------------------------
\* TriageAgent.run
\* ------------------------------------------------------------------------

\* {"rank": i, "source_type": pool, **r}: a key of the row wins
RankedRow(r, i, pool) ==
    [r EXCEPT !.rank = IF @.t = "missing" THEN Num(i) ELSE @,
              !.source_type = IF @.t = "missing" THEN Str(pool) ELSE @]

\* Mutant: the ranks of the secondary hits start again at 1.
_build_ranked_results_NoOffset(primary, primary_type, secondary, secondary_pool) ==
    [i \in 1..Len(primary) |-> RankedRow(primary[i], i, primary_type)]
    \o [i \in 1..Len(secondary) |-> RankedRow(secondary[i], i, secondary_pool)]

_build_ranked_results(primary, primary_type, secondary, secondary_pool) ==
    [i \in 1..Len(primary) |-> RankedRow(primary[i], i, primary_type)]
    \o [i \in 1..Len(secondary) |->
           RankedRow(secondary[i], Len(primary) + i, secondary_pool)]

ENABLE_RERANKING == TRUE

\* The replies of the generation provider that a run is tried with.
RunClassifyReplies ==
    {ApiError, NoContent}
    \cup {Content(Plain([t |-> "obj", answer_type |-> at, confidence |-> Num(95),
                         reasoning |-> Str("mentions a backend data issue"),
                         search_query |-> sq])) :
            at \in {Str("SCRIPT"), Str("KB"), Str("TICKET_RESOLUTION"), Str("FAQ")},
            sq \in SearchQueryValues}
RunRerankReplies ==
    {ApiError, NoContent, Content(<<Word, Space, Word>>),
     Content(Plain(List(<<Str("SCRIPT-1"), Str("KB-1")>>))),
     Content(Fenced(List(<<Str("CS-1"), Str("KB-2"), Str("KB-999")>>)))}

\* embedding_service.embed(text)
EmbedOutcomesFor(text) ==
    IF Embeddable(text) THEN {Ok(Emb(text)), Raise("APIError")} ELSE {Raise("APIError")}

\* Step 1: classification = await self._classify(question)
TriageClassify ==
    /\ tri_pc = "classify"
    /\ \E reply \in RunClassifyReplies :
          LET r == _classify(question, reply)
          IN /\ llm_calls' = Append(llm_calls, LlmCall("classify", reply))
             /\ tri_pc' = IF r.exc = "none" THEN "embed" ELSE "raised"
             /\ classification' = IF r.exc = "none" THEN r.val ELSE NoValue
    /\ UNCHANGED <<question, cls_pc, query_embedding, primary_results, secondary_type,
                   ranked_results, response, route_vars, rrf_vars, rr_vars, gap_vars,
                   fan_vars, sa_vars,
                   dec_vars, syn_vars, dr_vars,
                   cfg_vars>>

\* Step 2: query_embedding = await self.embedding_service.embed(search_query)
TriageEmbed ==
    /\ tri_pc = "embed"
    /\ \E e \in EmbedOutcomesFor(classification.search_query) :
          /\ embed_calls' = Append(embed_calls, <<classification.search_query>>)
          /\ tri_pc' = IF e.exc = "none" THEN "primary" ELSE "raised"
          /\ query_embedding' = IF e.exc = "none" THEN e.val ELSE NoValue
    /\ UNCHANGED <<primary_results, secondary_type, ranked_results, response, fan_pc,
                   sub_queries, index_variant, tasks, merged, req_vars, cls_vars,
                   route_vars, rrf_vars, rr_vars, gap_vars, sa_vars,
                   dec_vars, syn_vars, dr_vars,
                   cfg_vars>>

\* Step 3: the primary pool is searched; a query on the session can fail.
TriageSearchPrimary ==
    /\ tri_pc = "primary"
    /\ \E ok \in BOOLEAN :
          IF ~ok
          THEN tri_pc' = "raised" /\ UNCHANGED primary_results
          ELSE /\ tri_pc' = "secondary"
               /\ primary_results' = search_all(index_variant, query_embedding,
                                                classification.answer_type,
                                                SEARCH_RESULT_LIMIT, Str(question))
    /\ UNCHANGED <<query_embedding, secondary_type, ranked_results, response, req_vars,
                   cls_vars, route_vars, rrf_vars, rr_vars, gap_vars, fan_vars, sa_vars,
                   dec_vars, syn_vars, dr_vars,
                   cfg_vars>>

\* Step 4: the secondary pool is picked and searched, the ranked list is
\* built, and the run goes on to the rerank or, with no results, to its end.
TriageSearchSecondary ==
    /\ tri_pc = "secondary"
    /\ LET pool == _secondary_pool(classification.answer_type)
       IN /\ secondary_type' = pool
          /\ \E ok \in BOOLEAN :
                IF ~ok
                THEN tri_pc' = "raised" /\ UNCHANGED <<ranked_results, candidates>>
                ELSE LET secondary_results ==
                             search_all(index_variant, query_embedding, pool,
                                        SecondaryLimit, Str(question))
                         ranked == _build_ranked_results(primary_results,
                                       classification.answer_type, secondary_results, pool)
                     IN /\ ranked_results' = ranked
                        /\ candidates' = IF enable_reranking /\ ranked # <<>>
                                         THEN ranked ELSE candidates
                        /\ tri_pc' = IF enable_reranking /\ ranked # <<>>
                                     THEN "rerank" ELSE "respond"
    /\ UNCHANGED <<query_embedding, primary_results, response, rr_pc, reranked, req_vars,
                   cls_vars, route_vars, rrf_vars, gap_vars, fan_vars, sa_vars,
                   dec_vars, syn_vars, dr_vars,
                   cfg_vars>>

\* Step 5: ranked_results = await self._rerank(question, ranked_results)
TriageRerank ==
    /\ tri_pc = "rerank"
    /\ LET p == rerank_previews(Prefix(candidates, RERANK_CANDIDATE_COUNT))
       IN IF p.exc # "none"
          THEN /\ tri_pc' = "raised"
               /\ UNCHANGED <<ranked_results, reranked, llm_calls>>
          ELSE \E reply \in RunRerankReplies :
                  LET r == _rerank(candidates, reply)
                  IN /\ llm_calls' = Append(llm_calls, LlmCall("rerank", reply))
                     /\ tri_pc' = IF r.exc = "none" THEN "respond" ELSE "raised"
                     /\ reranked' = IF r.exc = "none" THEN r.val ELSE <<>>
                     /\ ranked_results' = IF r.exc = "none" THEN r.val ELSE ranked_results
    /\ UNCHANGED <<question, query_embedding, primary_results, secondary_type, response,
                   rr_pc, candidates, cls_vars, route_vars, rrf_vars, gap_vars, fan_vars, sa_vars,
                   dec_vars, syn_vars, dr_vars,
                   cfg_vars>>

\* return AgentResponse(content=json.dumps(response_payload), metadata=...)
TriageRespond ==
    /\ tri_pc = "respond"
    /\ response' = [classification |-> classification,
                    results |-> ranked_results,
                    metadata |-> [primary_pool |-> classification.answer_type,
                                  secondary_pool |-> secondary_type,
                                  result_count |-> Len(ranked_results),
                                  search_query |-> classification.search_query]]
    /\ tri_pc' = "returned"
    /\ UNCHANGED <<query_embedding, primary_results, secondary_type, ranked_results,
                   req_vars, cls_vars, route_vars, rrf_vars, rr_vars, gap_vars, fan_vars, sa_vars,
                   dec_vars, syn_vars, dr_vars,
                   cfg_vars>>

\* The secondary hits of the run, and the list built from both searches: it
\* is what went into the rerank, or without a rerank what is returned.
SecondaryResults ==
    search_all(index_variant, query_embedding, secondary_type, SecondaryLimit, Str(question))
BuiltResults == IF llm_calls[Len(llm_calls)].stage = "rerank" THEN candidates
                ELSE response.results

\* C21: on the simple path the result list is the primary hits followed by
\* the secondary hits (at most 5 of them), and in the final response the
\* i-th result has rank i, whether the rerank is disabled, succeeds or fails.
C21_SimplePathRanks ==
    tri_pc = "returned" =>
        /\ IdsOf(BuiltResults) = IdsOf(primary_results) \o IdsOf(SecondaryResults)
        /\ Len(SecondaryResults) <= SecondaryLimit
        /\ Range(IdsOf(response.results)) = Range(IdsOf(BuiltResults))
        /\ Len(response.results) = Len(BuiltResults)
        /\ \A i \in 1..Len(response.results) : response.results[i].rank = Num(i)

\* The rerank failed and the built list, hits of both pools, is returned.
C21_Witness ==
    /\ tri_pc = "returned"
    /\ llm_calls[Len(llm_calls)] = LlmCall("rerank", ApiError)
    /\ primary_results # <<>>
    /\ Len(response.results) > Len(primary_results) + 1

\* The rerank succeeded and moved a secondary hit to the front.
C21_WitnessReranked ==
    /\ tri_pc = "returned"
    /\ llm_calls[Len(llm_calls)].stage = "rerank"
    /\ primary_results # <<>>
    /\ IdsOf(response.results) # IdsOf(candidates)

\* Reranking is disabled.
C21_WitnessDisabled ==
    /\ tri_pc = "returned"
    /\ ~enable_reranking
    /\ Len(response.results) > Len(primary_results) + 1
    /\ primary_results # <<>>

\* The pool whose table holds a document.
\* The simple path has searched both pools and has not reranked yet.
SearchedNotReranked ==
    /\ tri_pc \in {"rerank", "respond"}
    /\ llm_calls[Len(llm_calls)].stage # "rerank"

\* What the baseline task of a fan-out would contribute for this question,
\* this classification and this index.
BaselineHits ==
    _baseline_search(index_variant, classification, classification.search_query,
                     embed_batch(QueryTexts(<<>>, classification))[1])

\* C28: for the same question, classification and index the baseline task
\* of the fan-out issues the searches of the simple path (same pools, same
\* limits, same embedded text, same lexical query text) and contributes the
\* hits TriageAgent.run has before reranking, in the same order.
C28_BaselineIsSimplePath ==
    SearchedNotReranked =>
        /\ query_embedding = embed_batch(QueryTexts(<<>>, classification))[1]
        /\ secondary_type = _secondary_pool(classification.answer_type)
        /\ Str(question) = classification.search_query
        /\ Len(BaselineHits) = Len(ranked_results)
        /\ \A i \in 1..Len(ranked_results) :
              Unranked(ranked_results[i]) = Unranked(BaselineHits[i])

\* What does hold: the two embed the same text and search the same pools;
\* when the classifier leaves the question as it is, the hits are the same.
BaselineSameEmbeddingAndPools ==
    SearchedNotReranked =>
        /\ query_embedding = embed_batch(QueryTexts(<<>>, classification))[1]
        /\ secondary_type = _secondary_pool(classification.answer_type)
        /\ Str(question) = classification.search_query =>
              /\ Len(BaselineHits) = Len(ranked_results)
              /\ \A i \in 1..Len(ranked_results) :
                    Unranked(ranked_results[i]) = Unranked(BaselineHits[i])

\* The classifier rewrote the question, and the simple path and the
\* baseline have different hits.
BaselineHitsDiffer ==
    /\ SearchedNotReranked
    /\ Str(question) # classification.search_query
    /\ [i \in 1..Len(ranked_results) |-> ranked_results[i].id]
          # [i \in 1..Len(BaselineHits) |-> BaselineHits[i].id]
BaselineHitsSame ==
    /\ SearchedNotReranked
    /\ Str(question) = classification.search_query
    /\ ranked_results # <<>>

PoolOfId(id) ==
    CASE id \in Range(ScriptIds) -> "SCRIPT"
      [] id \in Range(TicketIds) -> "TICKET_RESOLUTION"
      [] OTHER -> "KB"

TaggedWithPool(hits) ==
    \A i \in 1..Len(hits) : hits[i].source_type = Str(PoolOfId(hits[i].id))

\* The hits of the tables whose rows have no source_type column are tagged.
ScriptAndTicketHitsTagged(hits) ==
    \A i \in 1..Len(hits) :
        PoolOfId(hits[i].id) # "KB" => hits[i].source_type = Str(PoolOfId(hits[i].id))

SimplePathOthersTagged == tri_pc = "returned" => ScriptAndTicketHitsTagged(response.results)
MergedOthersTagged == fan_pc = "returned" => ScriptAndTicketHitsTagged(merged)
MergedTagged == fan_pc = "returned" => TaggedWithPool(merged)

\* C22: every hit of the simple-path result list and of the merged list of
\* the fan-out has a source_type equal to the pool that was searched to
\* produce it, whatever fields the index row has.
C22_HitsTaggedWithPool ==
    /\ tri_pc = "returned" => TaggedWithPool(response.results)
    /\ MergedTagged

\* C7: _secondary_pool returns a pool for every value: KB for SCRIPT, SCRIPT
\* for KB, KB for TICKET_RESOLUTION and KB for any other value; for each of
\* the three valid pools the secondary pool is not the primary one.
C7_SecondaryPoolTotal ==
    tri_pc \in {"rerank", "respond", "returned"} =>
        LET primary == classification.answer_type
        IN /\ primary = "SCRIPT" => secondary_type = "KB"
           /\ primary = "KB" => secondary_type = "SCRIPT"
           /\ primary = "TICKET_RESOLUTION" => secondary_type = "KB"
           /\ primary \notin ValidPools => secondary_type = "KB"
           /\ primary \in ValidPools => secondary_type # primary

\* The secondary pool was picked for an article question, and the ranked
\* list has hits of both pools.
C7_Witness ==
    /\ tri_pc = "rerank"
    /\ classification.answer_type = "KB"
    /\ secondary_type = "SCRIPT"
    /\ \E i \in 1..Len(ranked_results) : ranked_results[i].id \in Range(ScriptIds)
    /\ \E i \in 1..Len(ranked_results) : ranked_results[i].id \in Range(KbIds)

\* The secondary pool was picked for a value that is not a pool.
C7_WitnessOther ==
    /\ tri_pc = "rerank"
    /\ classification.answer_type = "kb"
    /\ secondary_type = "KB"

\* The response of a run that returned has every field in its shape.
ValidResponse ==
    /\ DOMAIN response = {"classification", "results", "metadata"}
    /\ response.classification.answer_type \in ValidPools
    /\ response.classification.search_query.t = "str"
    /\ \A i \in 1..Len(response.results) : response.results[i].rank.t = "num"
    /\ response.metadata.result_count = Len(response.results)

\* C1: for every question and every behaviour of the generation provider,
\* the embedding provider and the index, TriageAgent.run returns a response
\* with every field in its shape, and raises nothing.
C1_RunNeverRaises ==
    /\ tri_pc # "raised"
    /\ tri_pc = "returned" => ValidResponse

\* The embedding call failed and the run raised.
C1_RaisedAtEmbed ==
    /\ tri_pc = "raised"
    /\ classification # NoValue
    /\ query_embedding = NoValue
    /\ embed_calls # <<>>

\* ------------------------------------------------------------------------
\* DeepResearchAgent._decompose
\* ------------------------------------------------------------------------

DEEP_RESEARCH_MAX_SUB_QUERIES == 4

\* An item of the provider's list that is a JSON object.
DecItem(query, pool, aspect) ==
    [t |-> "obj", query |-> query, pool |-> pool, aspect |-> aspect]

GoodItemA == DecItem(Str(SubQueryTextA), Str("SCRIPT"), Str("steps"))
GoodItemB == DecItem(Str(SubQueryTextB), Str("TICKET_RESOLUTION"), Str("history"))

DecomposeItems ==
    {GoodItemA, GoodItemB,
     DecItem(Str(SubQueryTextA), Str("FAQ"), Str("steps")),
     DecItem(Str(SubQueryTextA), Missing, Missing),
     DecItem(Str(SubQueryTextB), Null, Str("history")),
     DecItem(Str(SubQueryTextB), Num(5), Str("history")),
     DecItem(Str(SubQueryTextB), JsonList, Str("history")),
     DecItem(Missing, Missing, Missing),
     DecItem(Missing, Str("SCRIPT"), Str("steps")),
     DecItem(Null, Str("KB"), Str("steps")),
     DecItem(Num(5), Str("SCRIPT"), Null),
     Str(SubQueryTextA), Null, Num(5), JsonList}

\* Lists of up to two items of any kind, and longer lists around the clamp.
DecomposeLists ==
    {<<>>}
    \cup {<<a>> : a \in DecomposeItems}
    \cup {<<a, b>> : a, b \in DecomposeItems}
    \cup {<<GoodItemA, GoodItemB, GoodItemA>>,
          <<GoodItemA, GoodItemB, GoodItemA, GoodItemB>>,
          <<GoodItemA, GoodItemB, GoodItemB, GoodItemA, GoodItemB>>,
          <<GoodItemB, GoodItemA, GoodItemA, GoodItemB, Null>>,
          <<GoodItemB, GoodItemA, GoodItemA, Null, GoodItemB>>,
          <<GoodItemA, GoodItemB, GoodItemA, GoodItemB, GoodItemA, GoodItemB>>}

DecomposeReplies ==
    {ApiError, NoContent, Content(<<>>), Content(<<Word, Space, Word>>),
     Content(Plain(GoodItemA)), Content(Plain(Str("none"))), Content(Plain(Num(5))),
     Content(Plain(Null)), Content(Fenced(List(<<GoodItemA, GoodItemB>>))),
     Content(Chatty(List(<<GoodItemA, GoodItemB>>)))}
    \cup {Content(Plain(List(l))) : l \in DecomposeLists}

\* Mutant: a pool that is a text is kept as the provider wrote it.
decompose_item_KeepPool(q, item) ==
    IF item.t # "obj" THEN Raise("AttributeError")
    ELSE
    LET got == Get(item.pool, Str("KB"))
    IN IF ~IsHashable(got) THEN Raise("TypeError")
       ELSE Ok([query |-> Get(item.query, Str(q)),
                pool |-> IF got.t = "str" THEN got.s ELSE "KB",
                aspect |-> Get(item.aspect, Str(""))])

\* One turn of the loop over parsed[:DEEP_RESEARCH_MAX_SUB_QUERIES].
decompose_item(q, item) ==
    IF item.t # "obj" THEN Raise("AttributeError")          \* item.get
    ELSE
    LET got == Get(item.pool, Str("KB"))
    IN IF ~IsHashable(got) THEN Raise("TypeError")           \* pool not in dict
       ELSE Ok([query |-> Get(item.query, Str(q)),
                pool |-> IF IsValidAnswerType(got) THEN got.s ELSE "KB",
                aspect |-> Get(item.aspect, Str(""))])

SubQueriesOf(q, items) == [i \in 1..Len(items) |-> decompose_item(q, items[i]).val]

\* The body of the try block.
decompose_try(q, reply) ==
    IF reply.exc # "none" THEN Raise(reply.exc)
    ELSE
    LET loaded == json_loads(strip_markdown_fences(ContentOr(reply, Plain(JsonList))))
    IN IF loaded.exc # "none" THEN loaded
       ELSE IF loaded.val.t # "list" \/ loaded.val.items = <<>> THEN Raise("ValueError")
       ELSE
       LET items == Prefix(loaded.val.items, DEEP_RESEARCH_MAX_SUB_QUERIES)
           failing == {i \in 1..Len(items) : decompose_item(q, items[i]).exc # "none"}
       IN IF failing # {} THEN Raise(decompose_item(q, items[Min(failing)]).exc)
          ELSE Ok(SubQueriesOf(q, items))

DecomposeFallback(q) ==
    <<[query |-> Str(q), pool |-> "KB", aspect |-> Str("general search")]>>

_decompose(q, reply) ==
    LET r == decompose_try(q, reply)
    IN IF r.exc = "none" THEN r
       ELSE IF CaughtByExceptException(r.exc) THEN Ok(DecomposeFallback(q))
       ELSE r

Decompose ==
    /\ dec_pc = "start"
    /\ \E reply \in DecomposeReplies :
          LET r == _decompose(question, reply)
          IN /\ llm_calls' = Append(llm_calls, LlmCall("decompose", reply))
             /\ dec_pc' = IF r.exc = "none" THEN "returned" ELSE "raised"
             /\ decomposed' = IF r.exc = "none" THEN r.val ELSE <<>>
    /\ UNCHANGED <<question, cls_vars, route_vars, rrf_vars, rr_vars, gap_vars, fan_vars,
                   tri_vars, sa_vars, syn_vars, dr_vars,
                   cfg_vars>>

\* The reply of the decomposition call and the list it parses to.
DecomposeReply == llm_calls[Len(llm_calls)].reply
DecomposeReplyIsList(reply) ==
    LET l == LoadedReply(reply, Plain(JsonList)) IN l.exc = "none" /\ l.val.t = "list"
DecomposeReplyItems(reply) == LoadedReply(reply, Plain(JsonList)).val.items

\* An item that is no sub-query: not an object, or its query is not a text.
IsMalformedItem(item) ==
    item.t # "obj" \/ item.query.t \notin {"str", "missing"}

\* A provider error, unparsable output, output that is no list, an empty
\* list, or a list with a malformed item.
DecomposeReplyFailed(reply) ==
    \/ ~DecomposeReplyIsList(reply)
    \/ DecomposeReplyItems(reply) = <<>>
    \/ \E i \in 1..Len(DecomposeReplyItems(reply)) :
          IsMalformedItem(DecomposeReplyItems(reply)[i])

\* Exactly one sub-query: the original question, targeted at KB.
IsSingleKbQuestion(list) ==
    /\ Len(list) = 1
    /\ list[1].query = Str(question)
    /\ list[1].pool = "KB"

DecomposeNeverRaises == dec_pc # "raised"

\* C16: _decompose never raises, and on a provider error, unparsable
\* output, output that is no list, an empty list or a list with a malformed
\* item it returns exactly one sub-query whose query is the original
\* question and whose pool is KB.
C16_DecomposeFallsBack ==
    /\ DecomposeNeverRaises
    /\ (dec_pc = "returned" /\ DecomposeReplyFailed(DecomposeReply))
          => IsSingleKbQuestion(decomposed)

\* The same with a malformed item read as an item that is no object.
DecomposeFallsBackOnNonObjects ==
    (/\ dec_pc = "returned"
     /\ \/ ~DecomposeReplyIsList(DecomposeReply)
        \/ DecomposeReplyItems(DecomposeReply) = <<>>
        \/ \E i \in 1..Min({DEEP_RESEARCH_MAX_SUB_QUERIES,
                             Len(DecomposeReplyItems(DecomposeReply))}) :
              DecomposeReplyItems(DecomposeReply)[i].t # "obj")
    => decomposed = DecomposeFallback(question)

\* The provider's list holds only objects whose pool can be looked up.
DecomposeReplyUsable(reply) ==
    /\ DecomposeReplyIsList(reply)
    /\ DecomposeReplyItems(reply) # <<>>
    /\ \A i \in 1..Min({DEEP_RESEARCH_MAX_SUB_QUERIES, Len(DecomposeReplyItems(reply))}) :
          /\ DecomposeReplyItems(reply)[i].t = "obj"
          /\ DecomposeReplyItems(reply)[i].pool.t \notin {"list", "obj"}

\* The i-th sub-query is made of the provider's i-th item.
MadeOfItem(sq, item) ==
    /\ sq.query = (IF item.query.t = "missing" THEN Str(question) ELSE item.query)
    /\ sq.aspect = (IF item.aspect.t = "missing" THEN Str("") ELSE item.aspect)
    /\ sq.pool = (IF item.pool.t = "str" /\ item.pool.s \in ValidPools
                  THEN item.pool.s ELSE "KB")

\* C25: for every provider reply the list _decompose returns has at least 1
\* and at most DEEP_RESEARCH_MAX_SUB_QUERIES sub-queries, every pool is one
\* of SCRIPT, KB, TICKET_RESOLUTION (an invalid or missing pool is KB), and
\* a longer provider list is cut to its first items, in order.
C25_DecomposeClampedAndPooled ==
    dec_pc = "returned" =>
        /\ Len(decomposed) >= 1
        /\ Len(decomposed) <= DEEP_RESEARCH_MAX_SUB_QUERIES
        /\ \A i \in 1..Len(decomposed) : decomposed[i].pool \in ValidPools
        /\ DecomposeReplyUsable(DecomposeReply) =>
              /\ Len(decomposed) = Min({DEEP_RESEARCH_MAX_SUB_QUERIES,
                                        Len(DecomposeReplyItems(DecomposeReply))})
              /\ \A i \in 1..Len(decomposed) :
                    MadeOfItem(decomposed[i], DecomposeReplyItems(DecomposeReply)[i])

\* A list of six items is cut to its first four.
C25_Witness ==
    /\ dec_pc = "returned"
    /\ DecomposeReplyIsList(DecomposeReply)
    /\ Len(DecomposeReplyItems(DecomposeReply)) > DEEP_RESEARCH_MAX_SUB_QUERIES + 1
    /\ Len(decomposed) = DEEP_RESEARCH_MAX_SUB_QUERIES
    /\ decomposed[3].query = Str(SubQueryTextA)

\* An unknown pool and a missing pool both become KB.
C25_WitnessPool ==
    /\ dec_pc = "returned"
    /\ DecomposeReplyIsList(DecomposeReply)
    /\ Len(decomposed) = 2
    /\ DecomposeReplyItems(DecomposeReply)[1].pool = Str("FAQ")
    /\ DecomposeReplyItems(DecomposeReply)[2].pool = Missing
    /\ decomposed[1].pool = "KB"
    /\ decomposed[2].pool = "KB"

\* The fifth item of the provider's list is never read.
C25_WitnessFifthIgnored ==
    /\ dec_pc = "returned"
    /\ DecomposeReplyIsList(DecomposeReply)
    /\ Len(DecomposeReplyItems(DecomposeReply)) = DEEP_RESEARCH_MAX_SUB_QUERIES + 1
    /\ DecomposeReplyItems(DecomposeReply)[DEEP_RESEARCH_MAX_SUB_QUERIES + 1] = Null
    /\ Len(decomposed) = DEEP_RESEARCH_MAX_SUB_QUERIES

\* C26: every decomposition _decompose returns that is not the
\* single-sub-query failure fallback has between 2 and 4 sub-queries.
C26_TwoToFourSubQueries ==
    (dec_pc = "returned" /\ decomposed # DecomposeFallback(question))
    => (Len(decomposed) >= 2 /\ Len(decomposed) <= DEEP_RESEARCH_MAX_SUB_QUERIES)

\* What does hold: at most four.
AtMostFourSubQueries ==
    dec_pc = "returned" => Len(decomposed) <= DEEP_RESEARCH_MAX_SUB_QUERIES

\* A provider list of one item is returned as a decomposition of one.
OneItemDecomposition ==
    /\ dec_pc = "returned"
    /\ DecomposeReply = Content(Plain(List(<<GoodItemA>>)))
    /\ decomposed = <<[query |-> Str(SubQueryTextA), pool |-> "SCRIPT", aspect |-> Str("steps")]>>

\* ------------------------------------------------------------------------
\* DeepResearchAgent._synthesize
\* ------------------------------------------------------------------------

SYNTHESIS_FALLBACK_EVIDENCE == 10           \* results[:10] of the fallback report

\* f"{x:.3f}" of a score in millionths: the thousandths it prints.  An exact
\* half of a thousandth is printed by the double's binary value; the scores
\* of the model do not end in 500.
Format3f(x) == IF x % 1000 > 500 THEN x \div 1000 + 1 ELSE x \div 1000

\* f"Similarity score: {score:.3f}"
FormattedScore(score) == [t |-> "fstr", label |-> "Similarity score: ", thousandths |-> Format3f(score)]

\* Candidates as search_all and the merge hand them on: articles of the
\* large table in fused order, and the tickets, two of which have a NULL
\* column.
ArticleCandidates ==
    reciprocal_rank_fusion(Prefix(RowsOf(LargeKbIds), HYBRID_SEARCH_OVERFETCH),
                           Prefix(RowsOf(LargeFtsOrder), HYBRID_SEARCH_OVERFETCH))
TicketCandidates == reciprocal_rank_fusion(RowsOf(TicketIds), <<>>)

SynthesisCandidateLengths == {0, 1, 2, 3, 10, 11, DEEP_RESEARCH_MAX_CONTEXT_ITEMS}
SynthesisCandidateLists ==
    {Prefix(ArticleCandidates, n) : n \in SynthesisCandidateLengths}
    \cup {Prefix(TicketCandidates, n) : n \in 1..Len(TicketCandidates)}
    \cup {Prefix(ArticleCandidates, 2) \o Prefix(TicketCandidates, 1)}

\* An entry of evidence or of related_resources in the provider's report.
Cited(source_id) == [t |-> "obj", source_id |-> source_id, title |-> Str("cited")]
CitedEntries ==
    {Cited(Str("KB-1")), Cited(Str("KB-2")), Cited(Str("KB-99")), Cited(Str("CS-1")),
     Cited(Missing), Cited(Null), Cited(Num(5)), Cited(JsonList), Str("KB-1"), Null}

\* What the provider may put under evidence or related_resources.
CitedValues ==
    {Missing, Null, Num(5), Str(""), Str("KB-1"), JsonList}
    \cup {List(<<a>>) : a \in CitedEntries}
    \cup {List(<<a, b>>) : a, b \in {Cited(Str("KB-1")), Cited(Str("KB-2")),
                                       Cited(Str("KB-99")), Cited(Missing)}}

Report(summary, evidence, related_resources) ==
    [t |-> "obj", summary |-> summary, evidence |-> evidence,
     related_resources |-> related_resources]

\* {} as the synthesis call reads it
EmptyReport == Report(Missing, Missing, Missing)

SynthesisValues ==
    {Report(Str("answer"), e, r) : e \in CitedValues,
                                   r \in {Missing, JsonList, List(<<Cited(Str("KB-1"))>>),
                                          List(<<Cited(Str("KB-99"))>>), Null}}
    \cup {EmptyReport, Report(Missing, JsonList, JsonList),
          Report(Null, JsonList, JsonList),
          JsonList, List(<<Cited(Str("KB-99"))>>), List(<<Str("evidence")>>),
          Str("none"), Str("evidence"), Str("related_resources"), Num(5), Null, Bool(TRUE)}

SynthesisReplies ==
    {ApiError, NoContent, Content(<<Word, Space, Word>>),
     Content(Fenced(Report(Str("answer"), List(<<Cited(Str("KB-1")), Cited(Str("KB-99"))>>),
                           JsonList)))}
    \cup {Content(Plain(v)) : v \in SynthesisValues}

\* The loop that builds the context lines, before the try block.
synthesize_context(results) ==
    IF \E i \in 1..Len(results) :
           \/ SliceOf(results[i].title).exc # "none"
           \/ SliceOf(results[i].content_preview).exc # "none"
    THEN Raise("TypeError")
    ELSE Ok({results[i].id : i \in 1..Len(results)})        \* valid_source_ids

\* key in report: a dict has the key, a list has an equal element, a
\* string has it as a substring; other values raise.
KeyIn(key, v) ==
    CASE v.t = "obj" -> Ok(IF key = "evidence" THEN v.evidence.t # "missing"
                           ELSE v.related_resources.t # "missing")
      [] v.t = "list" -> Ok(\E i \in 1..Len(v.items) : v.items[i] = Str(key))
      [] v.t = "str" -> Ok(v.s = key)
      [] OTHER -> Raise("TypeError")

\* e.get("source_id") in valid_source_ids, for one entry.
entry_cited(e, valid_source_ids) ==
    IF e.t # "obj" THEN Raise("AttributeError")
    ELSE IF ~IsHashable(Get(e.source_id, Null)) THEN Raise("TypeError")
    ELSE Ok(e.source_id.t = "str" /\ e.source_id.s \in valid_source_ids)

\* Mutant: every entry is kept.
filter_cited_KeepAll(v, valid_source_ids) ==
    CASE v.t = "list" ->
            IF \E i \in 1..Len(v.items) : entry_cited(v.items[i], valid_source_ids).exc # "none"
            THEN Raise("AttributeError")
            ELSE Ok(v)
      [] v.t = "str" -> IF v.s = "" THEN Ok(JsonList) ELSE Raise("AttributeError")
      [] v.t = "obj" -> Raise("AttributeError")
      [] OTHER -> Raise("TypeError")

\* [e for e in report[key] if e.get("source_id") in valid_source_ids]
filter_cited(v, valid_source_ids) ==
    CASE v.t = "list" ->
            LET failing == {i \in 1..Len(v.items) :
                               entry_cited(v.items[i], valid_source_ids).exc # "none"}
            IN IF failing # {}
               THEN Raise(entry_cited(v.items[Min(failing)], valid_source_ids).exc)
               ELSE Ok(List(SelectSeq(v.items,
                                      LAMBDA e : entry_cited(e, valid_source_ids).val)))
      [] v.t = "str" -> IF v.s = "" THEN Ok(JsonList) ELSE Raise("AttributeError")
      [] v.t = "obj" -> Raise("AttributeError")      \* the keys of a dict are strings
      [] OTHER -> Raise("TypeError")                 \* not iterable

\* The body of the try block.
synthesize_try(reply, valid_source_ids) ==
    IF reply.exc # "none" THEN Raise(reply.exc)
    ELSE
    LET loaded == json_loads(strip_markdown_fences(ContentOr(reply, Plain(EmptyReport))))
    IN IF loaded.exc # "none" THEN loaded
       ELSE
       LET rep == loaded.val
           hasEvidence == KeyIn("evidence", rep)
       IN IF hasEvidence.exc # "none" THEN hasEvidence
          ELSE IF hasEvidence.val /\ rep.t # "obj" THEN Raise("TypeError")  \* report["evidence"]
          ELSE
          LET evidence == IF hasEvidence.val THEN filter_cited(rep.evidence, valid_source_ids)
                          ELSE Ok(Missing)
              hasRelated == KeyIn("related_resources", rep)
          IN IF evidence.exc # "none" THEN evidence
             ELSE IF hasRelated.val /\ rep.t # "obj" THEN Raise("TypeError")
             ELSE
             LET related == IF hasRelated.val
                            THEN filter_cited(rep.related_resources, valid_source_ids)
                            ELSE Ok(Missing)
             IN IF related.exc # "none" THEN related
                ELSE IF rep.t # "obj" THEN Ok(rep)
                ELSE Ok([rep EXCEPT !.evidence = evidence.val,
                                    !.related_resources = related.val])

SynthesisFailedNotice ==
    Str("Synthesis failed. Here are the raw search results ranked by relevance.")

\* One evidence entry of the fallback report.
FallbackEvidence(r) ==
    [t |-> "obj",
     source_id |-> Str(r.id),
     source_type |-> Get(r.source_type, Str("")),
     title |-> r.title,
     relevance |-> FormattedScore(r.similarity_score),
     content_preview |-> SliceOf(r.content_preview).val]

\* The report of the except branch.
SynthesisFallback(results) ==
    LET shown == Prefix(results, SYNTHESIS_FALLBACK_EVIDENCE)
    IN Report(SynthesisFailedNotice,
              List([i \in 1..Len(shown) |-> FallbackEvidence(shown[i])]),
              JsonList)

_synthesize(results, reply) ==
    LET context == synthesize_context(results)
    IN IF context.exc # "none" THEN context
       ELSE LET r == synthesize_try(reply, context.val)
            IN IF r.exc = "none" THEN r
               ELSE IF CaughtByExceptException(r.exc) THEN Ok(SynthesisFallback(results))
               ELSE r

Synthesize ==
    /\ syn_pc = "start"
    /\ LET context == synthesize_context(syn_results)
       IN IF context.exc # "none"
          THEN /\ syn_pc' = "raised"
               /\ UNCHANGED <<llm_calls, report>>
          ELSE \E reply \in SynthesisReplies :
                  LET r == _synthesize(syn_results, reply)
                  IN /\ llm_calls' = Append(llm_calls, LlmCall("synthesize", reply))
                     /\ syn_pc' = IF r.exc = "none" THEN "returned" ELSE "raised"
                     /\ report' = IF r.exc = "none" THEN r.val ELSE NoValue
    /\ UNCHANGED <<question, syn_results, cls_vars, route_vars, rrf_vars, rr_vars, gap_vars,
                   fan_vars, tri_vars, sa_vars, dec_vars, dr_vars,
                   cfg_vars>>

\* The reply of the synthesis call, and the ids of the candidates.
SynthesisReply == llm_calls[Len(llm_calls)].reply
CandidateSourceIds == {syn_results[i].id : i \in 1..Len(syn_results)}

\* The entries a returned report has under evidence and related_resources.
EntriesOf(v) == IF v.t = "list" THEN Range(v.items) ELSE {}
ReportEntries ==
    IF report.t = "obj" THEN EntriesOf(report.evidence) \cup EntriesOf(report.related_resources)
    ELSE {}

\* Every entry of a returned report cites a candidate.
ReportCitesCandidates ==
    syn_pc = "returned" =>
        \A e \in ReportEntries :
            /\ e.t = "obj"
            /\ e.source_id.t = "str"
            /\ e.source_id.s \in CandidateSourceIds

\* The provider cited an id that is not a candidate's, and it was dropped.
UnknownIdDropped ==
    /\ syn_pc = "returned"
    /\ ReplyIsObject(SynthesisReply, Plain(EmptyReport))
    /\ \E e \in EntriesOf(ReplyObject(SynthesisReply, Plain(EmptyReport)).evidence) :
          e.t = "obj" /\ e.source_id.t = "str" /\ e.source_id.s \notin CandidateSourceIds
    /\ report.summary = Str("answer")
    /\ report.evidence.items # <<>>

SynthesizeNeverRaises == syn_pc # "raised"

\* C13: for every candidate set and every provider reply, every entry of
\* evidence and of related_resources in the report _synthesize returns has
\* a source_id that is the id of one of the candidates handed to it, and ids
\* that are not recognised are dropped without raising.
C13_ReportCitesOnlyCandidates == SynthesizeNeverRaises /\ ReportCitesCandidates

\* A summary, an evidence list and a related_resources list.
HasReportShape(v) ==
    /\ v.t = "obj"
    /\ v.summary.t = "str"
    /\ v.evidence.t = "list"
    /\ v.related_resources.t = "list"

\* The provider failed, or its reply is unparsable or has not that shape.
SynthesisReplyFailed(reply) ==
    \/ LoadedReply(reply, Plain(EmptyReport)).exc # "none"
    \/ ~HasReportShape(LoadedReply(reply, Plain(EmptyReport)).val)

\* The fallback: the fixed notice, one evidence entry for each of the first
\* min(10, n) candidates in their order with the formatted score as
\* relevance, and no related resources.
IsDeterministicFallback(v) ==
    /\ HasReportShape(v)
    /\ v.summary = SynthesisFailedNotice
    /\ Len(v.evidence.items) = Min({SYNTHESIS_FALLBACK_EVIDENCE, Len(syn_results)})
    /\ \A i \in 1..Len(v.evidence.items) :
          /\ v.evidence.items[i].source_id = Str(syn_results[i].id)
          /\ v.evidence.items[i].relevance = FormattedScore(syn_results[i].similarity_score)
    /\ v.related_resources = JsonList

\* What an exception inside the try block gives.
FallbackOnException ==
    (/\ syn_pc = "returned"
     /\ synthesize_try(SynthesisReply, CandidateSourceIds).exc # "none")
    => IsDeterministicFallback(report)

FallbackReturned ==
    /\ syn_pc = "returned"
    /\ synthesize_try(SynthesisReply, CandidateSourceIds).exc # "none"
    /\ Len(syn_results) > SYNTHESIS_FALLBACK_EVIDENCE

\* C17: the report _synthesize returns always has a summary, an evidence
\* list and a related_resources list, and whenever the provider fails or
\* its reply is unparsable or has not that shape the report is the
\* deterministic fallback.
C17_ReportShapeOrFallback ==
    /\ SynthesizeNeverRaises
    /\ syn_pc = "returned" =>
          /\ HasReportShape(report)
          /\ SynthesisReplyFailed(SynthesisReply) => IsDeterministicFallback(report)

\* ------------------------------------------------------------------------
\* DeepResearchAgent.run, the research path
\* ------------------------------------------------------------------------

RESEARCH_RESULTS_SHOWN == 10                \* merged_results[:10]

ResearchRouteReplies ==
    {ApiError, Content(<<Chars("RESEARCH")>>), Content(<<Chars("SIMPLE")>>)}

ResearchClassifyReplies ==
    {ApiError,
     Content(Plain([t |-> "obj", answer_type |-> Str("KB"), confidence |-> Num(95),
                    reasoning |-> Str("asks how to"), search_query |-> Str(RewrittenQuery)])),
     Content(Plain([t |-> "obj", answer_type |-> Str("SCRIPT"), confidence |-> Num(95),
                    reasoning |-> Str("mentions a backend data issue"),
                    search_query |-> Null]))}

KbItemA == DecItem(Str(SubQueryTextA), Str("KB"), Str("steps"))
KbItemB == DecItem(Str(SubQueryTextB), Str("KB"), Str("history"))

ResearchDecomposeReplies ==
    {ApiError,
     Content(Plain(List(<<KbItemA, KbItemB>>))),
     Content(Plain(List(<<GoodItemA, GoodItemB>>)))}

ResearchSynthesisReplies ==
    {ApiError, Content(Plain(EmptyReport)),
     Content(Plain(Report(Str("answer"),
                          List(<<Cited(Str("KB-16")), Cited(Str("KB-99"))>>), JsonList)))}

\* The sub-queries as _parallel_search reads them.
AsSubQueries(list) ==
    [i \in 1..Len(list) |-> SubQuery(list[i].query.s, list[i].pool)]

\* Mutant: a slice that covers the whole list is the list itself.
slice_SameWhenWhole(heap, ref, n) ==
    IF Len(heap[ref]) <= n THEN [heap |-> heap, ref |-> ref]
    ELSE [heap |-> Append(heap, Prefix(heap[ref], n)), ref |-> Len(heap) + 1]

\* lst[:n] makes a new list.
slice(heap, ref, n) ==
    [heap |-> Append(heap, Prefix(heap[ref], n)), ref |-> Len(heap) + 1]

\* Mutant: the gather is over when one of the two has returned.
GatherDone_FirstCompleted(pcs) == \E i \in 1..Len(pcs) : pcs[i] = "returned"

\* await asyncio.gather(...): over when every awaitable has returned.
GatherDone(pcs) == \A i \in 1..Len(pcs) : pcs[i] = "returned"

\* Step 1: route = await self._route_complexity(question); on RESEARCH the
\* gather makes a task of each coroutine and schedules its first step.
DrRoute ==
    /\ dr_pc = "route"
    /\ \E reply \in ResearchRouteReplies :
          LET r == _route_complexity(reply)
          IN /\ llm_calls' = Append(llm_calls, LlmCall("route", reply))
             /\ IF r.exc # "none"
                THEN /\ dr_pc' = "raised"
                     /\ UNCHANGED <<route_vars, cls_pc, dec_pc, dr_ready>>
                ELSE /\ route_pc' = "returned"
                     /\ route' = r.val
                     /\ IF r.val = "SIMPLE"
                        THEN /\ dr_pc' = "delegated"      \* TriageAgent.run takes over
                             /\ UNCHANGED <<cls_pc, dec_pc, dr_ready>>
                        ELSE /\ dr_pc' = "gather"
                             /\ cls_pc' = "scheduled"
                             /\ dec_pc' = "scheduled"
                             /\ dr_ready' = <<"classify", "decompose">>
    /\ UNCHANGED <<question, classification, decomposed, dr_heap, dr_refs, rrf_vars, rr_vars,
                   gap_vars, fan_vars, tri_vars, sa_vars, syn_vars,
                   cfg_vars>>

\* The event loop runs the first callback of its queue: a task's first step
\* runs to the provider call and suspends there; resumed with the reply the
\* task runs to its end.
DrRunClassify ==
    /\ dr_pc = "gather"
    /\ dr_ready # <<>>
    /\ Head(dr_ready) = "classify"
    /\ dr_ready' = Tail(dr_ready)
    /\ IF cls_pc = "scheduled"
       THEN /\ cls_pc' = "awaiting"
            /\ UNCHANGED <<classification, llm_calls, dr_pc>>
       ELSE \E reply \in ResearchClassifyReplies :
               LET r == _classify(question, reply)
               IN /\ llm_calls' = Append(llm_calls, LlmCall("classify", reply))
                  /\ cls_pc' = IF r.exc = "none" THEN "returned" ELSE "raised"
                  /\ classification' = IF r.exc = "none" THEN r.val ELSE NoValue
                  /\ dr_pc' = IF r.exc = "none" THEN dr_pc ELSE "raised"
    /\ UNCHANGED <<question, dec_vars, dr_heap, dr_refs, route_vars, rrf_vars, rr_vars,
                   gap_vars, fan_vars, tri_vars, sa_vars, syn_vars,
                   cfg_vars>>

DrRunDecompose ==
    /\ dr_pc = "gather"
    /\ dr_ready # <<>>
    /\ Head(dr_ready) = "decompose"
    /\ dr_ready' = Tail(dr_ready)
    /\ IF dec_pc = "scheduled"
       THEN /\ dec_pc' = "awaiting"
            /\ UNCHANGED <<decomposed, llm_calls, dr_pc>>
       ELSE \E reply \in ResearchDecomposeReplies :
               LET r == _decompose(question, reply)
               IN /\ llm_calls' = Append(llm_calls, LlmCall("decompose", reply))
                  /\ dec_pc' = IF r.exc = "none" THEN "returned" ELSE "raised"
                  /\ decomposed' = IF r.exc = "none" THEN r.val ELSE <<>>
                  /\ dr_pc' = IF r.exc = "none" THEN dr_pc ELSE "raised"
    /\ UNCHANGED <<question, cls_vars, dr_heap, dr_refs, route_vars, rrf_vars, rr_vars,
                   gap_vars, fan_vars, tri_vars, sa_vars, syn_vars,
                   cfg_vars>>

\* The calls whose reply can arrive: the tasks suspended at the provider.
AwaitingCalls ==
    (IF cls_pc = "awaiting" THEN {"classify"} ELSE {})
    \cup (IF dec_pc = "awaiting" THEN {"decompose"} ELSE {})

\* With no callback left to run the event loop waits for I/O: one reply or
\* both arrive, in either order, and the tasks are queued to resume.
DrPoll ==
    /\ dr_pc = "gather"
    /\ dr_ready = <<>>
    /\ \E arrived \in Arrangements(AwaitingCalls, Cardinality(AwaitingCalls)) :
          /\ arrived # <<>>
          /\ dr_ready' = arrived
    /\ UNCHANGED <<dr_pc, dr_heap, dr_refs, req_vars, cls_vars, dec_vars, route_vars,
                   rrf_vars, rr_vars, gap_vars, fan_vars, tri_vars, sa_vars, syn_vars,
                   cfg_vars>>

\* Step 3: run resumes with both results and calls _parallel_search.
DrJoin ==
    /\ dr_pc = "gather"
    /\ GatherDone(<<cls_pc, dec_pc>>)
    /\ dr_pc' = "fanout"
    /\ fan_pc' = "start"
    /\ sub_queries' = AsSubQueries(decomposed)
    /\ UNCHANGED <<index_variant, embed_calls, tasks, merged, dr_ready, dr_heap, dr_refs,
                   req_vars, cls_vars, dec_vars, route_vars, rrf_vars, rr_vars, gap_vars,
                   tri_vars, sa_vars, syn_vars,
                   cfg_vars>>

\* merged_results[:DEEP_RESEARCH_MAX_CONTEXT_ITEMS] is handed to _synthesize.
CallSynthesize(heap, merged_ref) ==
    LET context == slice(heap, merged_ref, DEEP_RESEARCH_MAX_CONTEXT_ITEMS)
    IN /\ dr_heap' = context.heap
       /\ dr_refs' = [merged_results |-> merged_ref, context |-> context.ref, results |-> 0]
       /\ syn_results' = context.heap[context.ref]
       /\ syn_pc' = "start"
       /\ dr_pc' = "synthesize"

\* _parallel_search has returned or raised; Step 4 calls _rerank when
\* reranking is enabled and there is a result.
DrSearched ==
    /\ dr_pc = "fanout"
    /\ fan_pc \in {"returned", "raised"}
    /\ IF fan_pc = "raised"
       THEN /\ dr_pc' = "raised"
            /\ UNCHANGED <<dr_heap, dr_refs, rr_vars, syn_pc, syn_results>>
       ELSE IF enable_reranking /\ merged # <<>>
       THEN /\ dr_pc' = "rerank"
            /\ dr_heap' = <<merged>>
            /\ dr_refs' = [merged_results |-> 1, context |-> 0, results |-> 0]
            /\ candidates' = merged
            /\ rr_pc' = "start"
            /\ UNCHANGED <<reranked, syn_pc, syn_results>>
       ELSE /\ CallSynthesize(<<merged>>, 1)
            /\ UNCHANGED rr_vars
    /\ UNCHANGED <<dr_ready, report, req_vars, cls_vars, dec_vars, route_vars, rrf_vars,
                   gap_vars, fan_vars, tri_vars, sa_vars,
                   cfg_vars>>

\* _rerank returns its argument when the call fails or the reply is no list.
RerankReturnsArgument(cands, reply) ==
    \/ rerank_try(cands, reply).exc # "none"
    \/ LoadedReply(reply, Plain(JsonList)).val.t # "list"

\* Step 4: merged_results = await self.triage_agent._rerank(...), then
\* Step 5 calls _synthesize with the first items.
DrRerank ==
    /\ dr_pc = "rerank"
    /\ LET p == rerank_previews(Prefix(candidates, RERANK_CANDIDATE_COUNT))
       IN IF p.exc # "none"
          THEN /\ rr_pc' = "raised"
               /\ dr_pc' = "raised"
               /\ UNCHANGED <<reranked, llm_calls, dr_heap, dr_refs, syn_pc, syn_results>>
          ELSE \E reply \in RunRerankReplies :
                  LET r == _rerank(candidates, reply)
                  IN /\ llm_calls' = Append(llm_calls, LlmCall("rerank", reply))
                     /\ IF r.exc # "none"
                        THEN /\ rr_pc' = "raised"
                             /\ dr_pc' = "raised"
                             /\ UNCHANGED <<reranked, dr_heap, dr_refs, syn_pc, syn_results>>
                        ELSE /\ rr_pc' = "returned"
                             /\ reranked' = r.val
                             /\ IF RerankReturnsArgument(candidates, reply)
                                THEN CallSynthesize(dr_heap, dr_refs.merged_results)
                                ELSE CallSynthesize(Append(dr_heap, r.val), Len(dr_heap) + 1)
    /\ UNCHANGED <<question, candidates, dr_ready, report, cls_vars, dec_vars, route_vars,
                   rrf_vars, gap_vars, fan_vars, tri_vars, sa_vars,
                   cfg_vars>>

\* Step 5: report = await self._synthesize(...), then the result is built
\* with merged_results[:10] and returned.
DrSynthesize ==
    /\ dr_pc = "synthesize"
    /\ LET context == synthesize_context(syn_results)
       IN IF context.exc # "none"
          THEN /\ syn_pc' = "raised"
               /\ dr_pc' = "raised"
               /\ UNCHANGED <<llm_calls, report, dr_heap, dr_refs, response>>
          ELSE \E reply \in ResearchSynthesisReplies :
                  LET r == _synthesize(syn_results, reply)
                      shown == slice(dr_heap, dr_refs.merged_results, RESEARCH_RESULTS_SHOWN)
                  IN /\ llm_calls' = Append(llm_calls, LlmCall("synthesize", reply))
                     /\ IF r.exc # "none"
                        THEN /\ syn_pc' = "raised"
                             /\ dr_pc' = "raised"
                             /\ UNCHANGED <<report, dr_heap, dr_refs, response>>
                        ELSE /\ syn_pc' = "returned"
                             /\ report' = r.val
                             /\ dr_heap' = shown.heap
                             /\ dr_refs' = [dr_refs EXCEPT !.results = shown.ref]
                             /\ response' =
                                   [mode |-> "research",
                                    classification |-> classification,
                                    results |-> shown.heap[shown.ref],
                                    report |-> r.val,
                                    sub_queries |-> decomposed,
                                    metadata |->
                                       [route |-> "research",
                                        sub_query_count |-> Len(decomposed),
                                        merged_result_count |->
                                           Len(dr_heap[dr_refs.merged_results])]]
                             /\ dr_pc' = "returned"
    /\ UNCHANGED <<question, syn_results, dr_ready, tri_pc, query_embedding, primary_results,
                   secondary_type, ranked_results, cls_vars, dec_vars, route_vars, rrf_vars,
                   rr_vars, gap_vars, fan_vars, sa_vars,
                   cfg_vars>>

\* The lists run holds when it returns: the merged (and reranked) results,
\* the list handed to the synthesizer and the list of the result.
MergedList == dr_heap[dr_refs.merged_results]
ContextList == dr_heap[dr_refs.context]
ResultsList == dr_heap[dr_refs.results]

\* C11: on the research path with n merged candidates the list handed to
\* the synthesizer has min(n, 15) items and the results list of the response
\* has min(n, 10) items; both are taken from the same merged (and, when a
\* rerank ran, reranked) sequence, the results list is a prefix of the
\* synthesis context, and the two are distinct lists, not one shared list.
C11_TwoTruncations ==
    dr_pc = "returned" =>
        /\ MergedList = (IF rr_pc = "returned" THEN reranked ELSE merged)
        /\ syn_results = ContextList
        /\ response.results = ResultsList
        /\ Len(ContextList) = Min({Len(MergedList), DEEP_RESEARCH_MAX_CONTEXT_ITEMS})
        /\ Len(ResultsList) = Min({Len(MergedList), RESEARCH_RESULTS_SHOWN})
        /\ ContextList = Prefix(MergedList, DEEP_RESEARCH_MAX_CONTEXT_ITEMS)
        /\ ResultsList = Prefix(MergedList, RESEARCH_RESULTS_SHOWN)
        /\ ResultsList = Prefix(ContextList, Len(ResultsList))
        /\ dr_refs.context # dr_refs.results
        /\ dr_refs.context # dr_refs.merged_results
        /\ dr_refs.results # dr_refs.merged_results

\* More candidates than the results list shows: the two lists differ.
C11_Witness ==
    /\ dr_pc = "returned"
    /\ Len(MergedList) > RESEARCH_RESULTS_SHOWN
    /\ Len(ResultsList) < Len(ContextList)

\* Fewer candidates than either cut: two lists with the same items.
C11_WitnessShort ==
    /\ dr_pc = "returned"
    /\ MergedList # <<>>
    /\ Len(MergedList) < RESEARCH_RESULTS_SHOWN
    /\ ResultsList = ContextList
    /\ rr_pc = "returned"

\* The value of a hit's rank key; Missing when the hit has no such key.
RankOf(hit) == IF "rank" \in DOMAIN hit THEN hit.rank ELSE Missing

\* C24: in the research-mode output every hit of the results list carries a
\* rank and the i-th hit's rank is i, whether reranking is enabled, succeeds
\* or fails.
C24_ResearchResultsRanked ==
    dr_pc = "returned" =>
        \A i \in 1..Len(response.results) : RankOf(response.results[i]) = Num(i)

\* What does hold: the hits are ranked 1..n when a rerank rebuilt the list.
ResearchRankedAfterRerank ==
    (/\ dr_pc = "returned"
     /\ rr_pc = "returned"
     /\ ~RerankReturnsArgument(candidates, llm_calls[Len(llm_calls) - 1].reply))
    => \A i \in 1..Len(response.results) : RankOf(response.results[i]) = Num(i)

\* Results without a rank are returned with reranking disabled and with a
\* rerank that failed.
ResearchUnrankedDisabled ==
    /\ dr_pc = "returned"
    /\ ~enable_reranking
    /\ response.results # <<>>
    /\ RankOf(response.results[1]) = Missing
ResearchUnrankedFailedRerank ==
    /\ dr_pc = "returned"
    /\ rr_pc = "returned"
    /\ response.results # <<>>
    /\ RankOf(response.results[1]) = Missing
ResearchRankedReached ==
    /\ dr_pc = "returned"
    /\ Len(response.results) > 1
    /\ RankOf(response.results[2]) = Num(2)

Started(pc) == pc \in {"awaiting", "returned", "raised"}
Completed(pc) == pc \in {"returned", "raised"}

\* C19: on the RESEARCH route the classifier call and the decomposer call
\* are both started before either has completed, and the fan-out (the
\* batched embedding and the searches) does not start until both have
\* completed, in every interleaving.
C19_ClassifyAndDecomposeConcurrent ==
    /\ (Completed(cls_pc) \/ Completed(dec_pc)) => (Started(cls_pc) /\ Started(dec_pc))
    /\ (fan_pc # "idle" \/ embed_calls # <<>> \/ tasks # <<>>)
          => (cls_pc = "returned" /\ dec_pc = "returned")

\* Both calls are in flight at once; either may complete first.
C19_Witness ==
    /\ cls_pc = "awaiting"
    /\ dec_pc = "returned"
    /\ fan_pc = "idle"

C19_WitnessClassifyFirst ==
    /\ cls_pc = "returned"
    /\ dec_pc = "awaiting"
    /\ fan_pc = "idle"

C19_WitnessFanout ==
    /\ fan_pc = "gathering"
    /\ llm_calls[Len(llm_calls)].stage = "classify"

\* ------------------------------------------------------------------------
\* Specifications
\* ------------------------------------------------------------------------


ClsIdle == cls_pc = "idle" /\ classification = NoValue
RouteIdle == route_pc = "idle" /\ route = "-"
RrfIdle ==
    /\ rrf_pc = "idle"
    /\ semantic_results = <<>>
    /\ fts_results = <<>>
    /\ fused = <<>>

RrIdle == rr_pc = "idle" /\ candidates = <<>> /\ reranked = <<>>

GapIdle ==
    /\ gap_pc = "idle"
    /\ gap_threshold = KB_GAP_THRESHOLD
    /\ best_match = Null
    /\ gap_response = NoValue

FanIdle ==
    /\ fan_pc = "idle"
    /\ sub_queries = <<>>
    /\ index_variant = 0
    /\ embed_calls = <<>>
    /\ tasks = <<>>
    /\ merged = <<>>

TriIdleAt(pc) ==
    /\ tri_pc = pc
    /\ query_embedding = NoValue
    /\ primary_results = <<>>
    /\ secondary_type = "-"
    /\ ranked_results = <<>>
    /\ response = NoValue

TriIdle == TriIdleAt("idle")

DecIdle == dec_pc = "idle" /\ decomposed = <<>>
SynIdle == syn_pc = "idle" /\ syn_results = <<>> /\ report = NoValue
\* The flag as the repository sets it.
CfgDefault == enable_reranking = ENABLE_RERANKING
DrIdle == dr_pc = "idle" /\ dr_ready = <<>> /\ dr_heap = <<>> /\ dr_refs = NoValue


SaIdle ==
    /\ search_pc = "idle"
    /\ search_args = NoValue
    /\ search_run = 0
    /\ first_results = <<>>
    /\ search_results = <<>>

ReqInit == question \in Questions /\ llm_calls = <<>>

\* TriageAgent._classify on its own
ClassifyInit ==
    /\ ReqInit
    /\ cls_pc = "start"
    /\ classification = NoValue
    /\ RouteIdle /\ RrfIdle /\ RrIdle /\ GapIdle /\ FanIdle /\ TriIdle /\ SaIdle
    /\ DecIdle /\ SynIdle /\ DrIdle
    /\ CfgDefault

ClassifyNext == Classify

SpecClassify == ClassifyInit /\ [][ClassifyNext]_vars

\* DeepResearchAgent._route_complexity on its own
RouteInit ==
    /\ ReqInit
    /\ route_pc = "start"
    /\ route = "-"
    /\ ClsIdle /\ RrfIdle /\ RrIdle /\ GapIdle /\ FanIdle /\ TriIdle /\ SaIdle
    /\ DecIdle /\ SynIdle /\ DrIdle
    /\ CfgDefault

RouteNext == RouteComplexity

SpecRoute == RouteInit /\ [][RouteNext]_vars

\* reciprocal_rank_fusion on the rows of two queries of one table
FusionInit ==
    /\ question = "voucher sync fails"
    /\ llm_calls = <<>>
    /\ rrf_pc = "start"
    /\ semantic_results \in {RowsOf(ids) : ids \in Arrangements(FirstIds(KbIds, NumDocs), MaxList)}
    /\ fts_results \in {RowsOf(ids) : ids \in Arrangements(FirstIds(KbIds, NumDocs), MaxList)}
    /\ fused = <<>>
    /\ ClsIdle /\ RouteIdle /\ RrIdle /\ GapIdle /\ FanIdle /\ TriIdle /\ SaIdle
    /\ DecIdle /\ SynIdle /\ DrIdle
    /\ CfgDefault

FusionNext == Fuse

SpecFusion == FusionInit /\ [][FusionNext]_vars

\* TriageAgent._rerank on its own
RerankInit ==
    /\ question = "voucher sync fails"
    /\ llm_calls = <<>>
    /\ rr_pc = "start"
    /\ candidates \in RerankCandidateLists
    /\ reranked = <<>>
    /\ ClsIdle /\ RouteIdle /\ RrfIdle /\ GapIdle /\ FanIdle /\ TriIdle /\ SaIdle
    /\ DecIdle /\ SynIdle /\ DrIdle
    /\ CfgDefault

RerankNext == Rerank

SpecRerank == RerankInit /\ [][RerankNext]_vars

\* The classifications _parallel_search is called with.
FanClassifications ==
    {[answer_type |-> at, confidence |-> 95,
      reasoning |-> Str("mentions a backend data issue"),
      search_query |-> Str(RewrittenQuery)] : at \in {"SCRIPT", "TICKET_RESOLUTION"}}
    \cup {ClassifyFallback("voucher sync fails")}

\* The merge of _parallel_search over the batches of three finished tasks
MergeIds == {"KB-1", "KB-2"}
MergeScores == {200000, 400000, 900000}
MergeBatches ==
    UNION {{[i \in 1..Len(ids) |-> Row(ids[i], sc[i])] :
                sc \in [1..Len(ids) -> MergeScores]} :
           ids \in Arrangements(MergeIds, Cardinality(MergeIds))}
MergeOutcomes == {Raise("DBAPIError")} \cup {Ok(b) : b \in MergeBatches}

FinishedTask(task, outcome, place) ==
    [task EXCEPT !.pc = task.queries,
                 !.status = IF outcome.exc = "none" THEN "done" ELSE "failed",
                 !.outcome = outcome,
                 !.seq = place]

MergeInit ==
    /\ question = "voucher sync fails"
    /\ llm_calls = <<>>
    /\ cls_pc = "returned"
    /\ classification = ClassifyFallback(question)
    /\ fan_pc = "gathering"
    /\ sub_queries = <<SubQuery(SubQueryTextA, "KB"), SubQuery(SubQueryTextB, "KB")>>
    /\ index_variant = 0
    /\ embed_calls = <<QueryTexts(sub_queries, classification)>>
    /\ \E outcomes \in [1..3 -> MergeOutcomes] :
          \E places \in {<<1, 2, 3>>, <<3, 1, 2>>} :
             tasks = [i \in 1..3 |->
                         FinishedTask(TasksFor(sub_queries, classification,
                                               embed_batch(embed_calls[1]))[i],
                                      outcomes[i], places[i])]
    /\ merged = <<>>
    /\ RouteIdle /\ RrfIdle /\ RrIdle /\ GapIdle /\ TriIdle /\ SaIdle
    /\ DecIdle /\ SynIdle /\ DrIdle
    /\ CfgDefault

MergeNext == FanMerge

SpecMerge == MergeInit /\ [][MergeNext]_vars

\* DeepResearchAgent._parallel_search: the embedding call, the tasks of the
\* gather in any interleaving, the merge.  A decomposition of the greatest
\* size is run on one index and with one classification.
FanoutInit ==
    /\ question = "voucher sync fails"
    /\ llm_calls = <<>>
    /\ cls_pc = "returned"
    /\ classification \in FanClassifications
    /\ fan_pc = "start"
    /\ sub_queries \in {sqs \in SubQueryLists : Len(sqs) <= MaxSubQueries}
                       \cup {<<SubQuery(question, "KB")>>}
    /\ index_variant \in 0..(NumIndexVariants - 1)
    /\ Len(sub_queries) >= DEEP_RESEARCH_MAX_SUB_QUERIES =>
          (index_variant = 0 /\ classification = ClassifyFallback(question))
    /\ embed_calls = <<>>
    /\ tasks = <<>>
    /\ merged = <<>>
    /\ RouteIdle /\ RrfIdle /\ RrIdle /\ GapIdle /\ TriIdle /\ SaIdle
    /\ DecIdle /\ SynIdle /\ DrIdle
    /\ CfgDefault

FanoutNext == FanStart \/ TaskStep \/ FanMerge

SpecFanout == FanoutInit /\ [][FanoutNext]_vars

\* The event loop resumes every task that can run, and a query that is in
\* flight returns or raises.
SpecFanoutLive == SpecFanout /\ WF_vars(TaskStep)

\* The search stage of TriageAgent.run for a classification with any
\* answer_type
PoolInputs == ValidPools \cup {"", "kb", "script", "TICKET", "FAQ"}

SearchStageInit ==
    /\ ReqInit
    /\ cls_pc = "returned"
    /\ classification \in
          {[answer_type |-> p, confidence |-> 95,
            reasoning |-> Str("mentions a backend data issue"),
            search_query |-> Str(sq)] : p \in PoolInputs, sq \in {RewrittenQuery, question}}
    /\ fan_pc = "idle"
    /\ sub_queries = <<>>
    /\ index_variant \in 0..(NumIndexVariants - 1)
    /\ embed_calls = <<>>
    /\ tasks = <<>>
    /\ merged = <<>>
    /\ TriIdleAt("embed")
    /\ RouteIdle /\ RrfIdle /\ RrIdle /\ GapIdle /\ SaIdle
    /\ DecIdle /\ SynIdle /\ DrIdle
    /\ CfgDefault

SearchStageNext == TriageEmbed \/ TriageSearchPrimary \/ TriageSearchSecondary

SpecSearchStage == SearchStageInit /\ [][SearchStageNext]_vars

\* TriageAgent.run
TriageInit ==
    /\ ReqInit
    /\ fan_pc = "idle"
    /\ sub_queries = <<>>
    /\ index_variant \in 0..(NumIndexVariants - 1)
    /\ embed_calls = <<>>
    /\ tasks = <<>>
    /\ merged = <<>>
    /\ TriIdleAt("classify")
    /\ ClsIdle /\ RouteIdle /\ RrfIdle /\ RrIdle /\ GapIdle /\ SaIdle
    /\ DecIdle /\ SynIdle /\ DrIdle
    /\ enable_reranking \in BOOLEAN

TriageNext ==
    \/ TriageClassify
    \/ TriageEmbed
    \/ TriageSearchPrimary
    \/ TriageSearchSecondary
    \/ TriageRerank
    \/ TriageRespond

SpecTriage == TriageInit /\ [][TriageNext]_vars

\* VectorSearchService.search_all, run twice with the same arguments
SearchLimits == {0, 1, SEARCH_RESULT_LIMIT, HYBRID_SEARCH_OVERFETCH}

SearchAllInit ==
    /\ ReqInit
    /\ fan_pc = "idle"
    /\ sub_queries = <<>>
    /\ index_variant \in 0..NumIndexVariants
    /\ embed_calls = <<>>
    /\ tasks = <<>>
    /\ merged = <<>>
    /\ search_pc = "semantic"
    /\ search_args \in
          [answer_type : PoolInputs,
           query_embedding : {Emb(Str(RewrittenQuery)), Emb(Str(question))},
           limit : SearchLimits,
           raw_question : {Null, Str(""), Str(question), Str(SubQueryTextA)}]
    /\ search_run = 1
    /\ first_results = <<>>
    /\ search_results = <<>>
    /\ ClsIdle /\ RouteIdle /\ RrfIdle /\ RrIdle /\ GapIdle /\ TriIdle
    /\ DecIdle /\ SynIdle /\ DrIdle
    /\ CfgDefault

SearchAllNext == SearchSemantic \/ SearchFts \/ SearchAgain

SpecSearchAll == SearchAllInit /\ [][SearchAllNext]_vars

\* DeepResearchAgent._decompose
DecomposeInit ==
    /\ ReqInit
    /\ dec_pc = "start"
    /\ decomposed = <<>>
    /\ ClsIdle /\ RouteIdle /\ RrfIdle /\ RrIdle /\ GapIdle /\ FanIdle /\ TriIdle /\ SaIdle
    /\ SynIdle /\ DrIdle
    /\ CfgDefault

DecomposeNext == Decompose

SpecDecompose == DecomposeInit /\ [][DecomposeNext]_vars

\* DeepResearchAgent._synthesize
SynthesizeInit ==
    /\ ReqInit
    /\ syn_pc = "start"
    /\ syn_results \in SynthesisCandidateLists
    /\ report = NoValue
    /\ ClsIdle /\ RouteIdle /\ RrfIdle /\ RrIdle /\ GapIdle /\ FanIdle /\ TriIdle /\ SaIdle
    /\ DecIdle /\ DrIdle
    /\ CfgDefault

SynthesizeNext == Synthesize

SpecSynthesize == SynthesizeInit /\ [][SynthesizeNext]_vars

\* DeepResearchAgent.run
ResearchInit ==
    /\ question = "voucher sync fails"
    /\ llm_calls = <<>>
    /\ dr_pc = "route"
    /\ dr_ready = <<>>
    /\ dr_heap = <<>>
    /\ dr_refs = NoValue
    /\ index_variant \in {0, NumIndexVariants}
    /\ fan_pc = "idle"
    /\ sub_queries = <<>>
    /\ embed_calls = <<>>
    /\ tasks = <<>>
    /\ merged = <<>>
    /\ ClsIdle /\ RouteIdle /\ RrfIdle /\ RrIdle /\ GapIdle /\ TriIdle /\ SaIdle
    /\ DecIdle /\ SynIdle
    /\ enable_reranking \in BOOLEAN

ResearchNext ==
    \/ DrRoute \/ DrRunClassify \/ DrRunDecompose \/ DrPoll \/ DrJoin
    \/ FanStart \/ TaskStep \/ FanMerge
    \/ DrSearched \/ DrRerank \/ DrSynthesize

SpecResearch == ResearchInit /\ [][ResearchNext]_vars

\* GapDetectionAgent.run
GapInit ==
    /\ question = "voucher sync fails"
    /\ llm_calls = <<>>
    /\ gap_pc = "start"
    /\ gap_threshold \in GapThresholds
    /\ best_match = Null
    /\ gap_response = NoValue
    /\ ClsIdle /\ RouteIdle /\ RrfIdle /\ RrIdle /\ FanIdle /\ TriIdle /\ SaIdle
    /\ DecIdle /\ SynIdle /\ DrIdle
    /\ CfgDefault

GapNext == GapEmbed \/ GapFindBest \/ GapDecide

SpecGap == GapInit /\ [][GapNext]_vars

=============================================================================
